---- MODULE Spec2Model ----
(***************************************************************************)
(* State-machine model of imap_error_mail_analyzer: the per-account        *)
(* orchestrator (modules/cli.py), the processed-message ledger             *)
(* (modules/cache.py), the classification dispatch                         *)
(* (modules/ollama_client.py) and the category registry                    *)
(* (utils/categories.py).                                                  *)
(***************************************************************************)
EXTENDS Integers, Sequences, FiniteSets, TLC

\* ---------------------------------------------------------------------------
\* Bounds of the model
\* ---------------------------------------------------------------------------
NAccounts == 2      \* configured accounts (config.accounts)
NFolders == 2       \* folders of an account (account_config.check)
MaxMsgs == 1        \* messages one fetch_messages call returns at most
NFps == 1           \* distinct message fingerprints
MaxBounces == 2     \* bounce records extract_bounces returns at most
MaxDay == 2         \* last calendar day (day 0 is 2024-12-30)
MaxWindow == 1      \* largest day window passed to run_main
MaxEvents == 5      \* what the environment does in all (see Cost)

Accounts == 1..NAccounts
FPs == 1..NFps

\* ---------------------------------------------------------------------------
\* Calendar: date.today().isoformat() and date.fromisoformat()
\* An ISO-8601 text "YYYY-MM-DD" is the triple <<YYYY, MM, DD>>; a day is an
\* integer, day 0 being 2024-12-30.
\* ---------------------------------------------------------------------------
IsLeap(y) == (y % 4 = 0 /\ y % 100 # 0) \/ y % 400 = 0

DaysInMonth(y, m) ==
  IF m = 2 THEN (IF IsLeap(y) THEN 29 ELSE 28)
  ELSE IF m \in {4, 6, 9, 11} THEN 30 ELSE 31

RECURSIVE DaysBeforeMonth(_, _)
DaysBeforeMonth(y, m) ==
  IF m <= 1 THEN 0 ELSE DaysBeforeMonth(y, m - 1) + DaysInMonth(y, m - 1)

\* proleptic Gregorian ordinal, as datetime.date.toordinal()
Ordinal(y, m, d) ==
  LET p == y - 1
  IN  p * 365 + (p \div 4) - (p \div 100) + (p \div 400) + DaysBeforeMonth(y, m) + d

EpochOrdinal == Ordinal(2024, 12, 30)

\* date.fromisoformat(v) succeeds
IsIsoDate(v) ==
  /\ v[1] \in 1..9999
  /\ v[2] \in 1..12
  /\ v[3] \in 1..DaysInMonth(v[1], v[2])

\* date.fromisoformat(v) as a day number
FromIso(v) == Ordinal(v[1], v[2], v[3]) - EpochOrdinal

\* date(day).isoformat(), for the days of the model (2024-12-30 .. 2025-01-31)
ToIso(day) == IF day <= 1 THEN <<2024, 12, 30 + day>> ELSE <<2025, 1, day - 1>>

\* a ledger value that is text but no ISO-8601 date
NotADate == <<0, 0, 0>>

\* ---------------------------------------------------------------------------
\* Category registry (utils/categories.py)
\* ---------------------------------------------------------------------------
CATEGORIES ==
  [ ip_block          |-> [excluded |-> FALSE],
    domain_block      |-> [excluded |-> FALSE],
    sender_throttle   |-> [excluded |-> FALSE],
    server_error      |-> [excluded |-> FALSE],
    config_error      |-> [excluded |-> FALSE],
    user_unknown      |-> [excluded |-> TRUE],
    user_mailbox_full |-> [excluded |-> TRUE],
    user_rate_limit   |-> [excluded |-> TRUE] ]

VALID_CATEGORIES == DOMAIN CATEGORIES

EXCLUDED_CATEGORIES == {k \in VALID_CATEGORIES : CATEGORIES[k].excluded}

\* CATEGORIES.get(category, {}).get("excluded", False)
is_excluded_category(category) ==
  IF category \in DOMAIN CATEGORIES THEN CATEGORIES[category].excluded ELSE FALSE

\* ---------------------------------------------------------------------------
\* Classification dispatch (modules/ollama_client.py)
\* ---------------------------------------------------------------------------
\* str.lower() on the category tokens of the model
PyLower(s) ==
  CASE s = "IP_BLOCK"          -> "ip_block"
    [] s = "Ip_Block"          -> "ip_block"
    [] s = "DOMAIN_BLOCK"      -> "domain_block"
    [] s = "Domain_Block"      -> "domain_block"
    [] s = "SENDER_THROTTLE"   -> "sender_throttle"
    [] s = "Sender_Throttle"   -> "sender_throttle"
    [] s = "SERVER_ERROR"      -> "server_error"
    [] s = "Server_Error"      -> "server_error"
    [] s = "CONFIG_ERROR"      -> "config_error"
    [] s = "Config_Error"      -> "config_error"
    [] s = "USER_UNKNOWN"      -> "user_unknown"
    [] s = "User_Unknown"      -> "user_unknown"
    [] s = "USER_MAILBOX_FULL" -> "user_mailbox_full"
    [] s = "User_Mailbox_Full" -> "user_mailbox_full"
    [] s = "USER_RATE_LIMIT"   -> "user_rate_limit"
    [] s = "User_Rate_Limit"   -> "user_rate_limit"
    [] s = "UNKNOWN"           -> "unknown"
    [] s = "Unknown"           -> "unknown"
    [] s = "SPAM"              -> "spam"
    [] s = "Spam"              -> "spam"
    [] s = "IP_BLOCK."         -> "ip_block."
    [] s = "REASON:"           -> "reason:"
    [] OTHER                   -> s

LowerTokens ==
  VALID_CATEGORIES \cup {"unknown", "spam", "ip_block.", "reason:", "ip-block", "user"}

UpperTokens ==
  { "IP_BLOCK", "DOMAIN_BLOCK", "SENDER_THROTTLE", "SERVER_ERROR", "CONFIG_ERROR",
    "USER_UNKNOWN", "USER_MAILBOX_FULL", "USER_RATE_LIMIT", "UNKNOWN", "SPAM",
    "IP_BLOCK.", "REASON:" }

TitleTokens ==
  { "Ip_Block", "Domain_Block", "Sender_Throttle", "Server_Error", "Config_Error",
    "User_Unknown", "User_Mailbox_Full", "User_Rate_Limit", "Unknown", "Spam" }

\* what _RE_CATEGORY captures in a reply: a token, or NoMatch
Tokens == LowerTokens \cup UpperTokens \cup TitleTokens

NoMatch == "<none>"

\* what _RE_REASON captures, after strip(): a sentence, nothing but blanks
\* (stripped to the empty text), or NoMatch
Reasons == {"reason text", "", NoMatch}

\* the reply texts: raw_text seen through the two regular expressions
ReplyTexts == [cat : Tokens \cup {NoMatch}, reason : Reasons]

FallbackReason == "Classification unavailable"

_fallback_excluded(reason) ==
  [ responsible |-> "unknown",
    reason      |-> IF reason # "" THEN reason ELSE FallbackReason,
    is_excluded |-> TRUE ]

_fallback(reason) ==
  [ responsible |-> "unknown",
    reason      |-> IF reason # "" THEN reason ELSE FallbackReason,
    is_excluded |-> FALSE ]

_parse_response_no_lower(raw_text) ==
  LET responsible == IF raw_text.cat # NoMatch THEN raw_text.cat ELSE ""
      reason      == IF raw_text.reason # NoMatch THEN raw_text.reason ELSE ""
  IN  IF responsible \notin VALID_CATEGORIES
      THEN _fallback(reason)
      ELSE [ responsible |-> responsible,
             reason      |-> reason,
             is_excluded |-> is_excluded_category(responsible) ]

_parse_response(raw_text) ==
  LET responsible == IF raw_text.cat # NoMatch THEN PyLower(raw_text.cat) ELSE ""
      reason      == IF raw_text.reason # NoMatch THEN raw_text.reason ELSE ""
  IN  IF responsible \notin VALID_CATEGORIES
      THEN _fallback(reason)
      ELSE [ responsible |-> responsible,
             reason      |-> reason,
             is_excluded |-> is_excluded_category(responsible) ]

\* Outcomes of requests.post(...) / raise_for_status() / resp.json():
\*   "transport"  a requests.RequestException (network error, timeout, HTTP
\*                error status, body that is not JSON)
\*   "not_object" the body is JSON but no object (a list, a number, null)
\*   "bad_field"  the object's "response" member is no text (a number, null)
\*   "text"       the object's "response" member is the text `text`
ReplyKinds == {"transport", "not_object", "bad_field", "text"}

\* the exception classify_error lets escape for a reply, "none" if it returns
ClassifyRaises(reply) ==
  CASE reply.kind = "not_object" -> "AttributeError"
    [] reply.kind = "bad_field"  -> "TypeError"
    [] OTHER                     -> "none"

\* the value classify_error returns for a reply it does not raise on
classify_error(reply) ==
  IF reply.kind = "transport" THEN _fallback("") ELSE _parse_response(reply.text)

\* ---------------------------------------------------------------------------
\* Processed-message ledger (modules/cache.py)
\* ---------------------------------------------------------------------------
\* A Python dict is a function from its keys; the values of a ledger are ISO
\* texts.  A JSON value is [type, data]: an object with its members, or
\* something that is no object.
EmptyDict == [k \in {} |-> NotADate]

PyDict(d) == [type |-> "dict", data |-> d]

PyList == [type |-> "list", data |-> EmptyDict]

\* The ledger file <account>_processed.json:
\*   "missing"      the path does not exist
\*   "unreadable"   open() raises OSError
\*   "bad_utf8"     the bytes are no UTF-8 text (read raises UnicodeDecodeError)
\*   "invalid_json" the text is no JSON (an empty or half-written file too)
\*   "json"         the text is the JSON value `value`
File(kind, value) == [kind |-> kind, value |-> value]

MissingFile == File("missing", PyDict(EmptyDict))

\* the exception ProcessedCache._load lets escape, "none" if it returns
LoadRaises(file) == IF file.kind = "bad_utf8" THEN "UnicodeDecodeError" ELSE "none"

_load_no_file(file) == PyDict(EmptyDict)

\* the value ProcessedCache._load returns
_load(file) == IF file.kind = "json" THEN file.value ELSE PyDict(EmptyDict)

\* the exception purge_older_than lets escape on the loaded value
PurgeRaises(value) ==
  IF value.type # "dict" THEN "AttributeError"
  ELSE IF \E k \in DOMAIN value.data : ~IsIsoDate(value.data[k]) THEN "ValueError"
  ELSE "none"

purge_older_than_strict(data, now, n) ==
  LET cutoff == now - n
      kept   == {k \in DOMAIN data : FromIso(data[k]) > cutoff}
  IN  [k \in kept |-> data[k]]

purge_older_than(data, now, n) ==
  LET cutoff == now - n
      kept   == {k \in DOMAIN data : FromIso(data[k]) >= cutoff}
  IN  [k \in kept |-> data[k]]

is_processed(data, msg_hash) == msg_hash \in DOMAIN data

mark_processed(data, msg_hash, now) ==
  [k \in DOMAIN data \cup {msg_hash} |-> IF k = msg_hash THEN ToIso(now) ELSE data[k]]

\* save(): mkdir, open(path, "w") and json.dump.  The write succeeds ("ok"),
\* fails before the file is opened ("not_opened": the file is as it was) or
\* fails after open() truncated it ("truncated": no complete JSON is left).
SaveOutcomes == {"ok", "not_opened", "truncated"}

save(file, data, outcome) ==
  CASE outcome = "ok"         -> File("json", PyDict(data))
    [] outcome = "not_opened" -> file
    [] outcome = "truncated"  -> File("invalid_json", PyDict(EmptyDict))

\* ---------------------------------------------------------------------------
\* Mailbox and messages
\* ---------------------------------------------------------------------------
\* A fetched message: the headers and the body compute_message_hash reads, and
\* the number of bounce records extract_bounces finds in it.  Texts are
\* sequences of characters.
NoText == <<>>

\* the Message-ID header of the i-th distinct message, as the mail server
\* delivers it (with blanks around)
MessageId(i) ==
  <<" ", "<", <<"1", "2", "3", "4", "5", "6", "7", "8", "9">>[i], "@", "x", ">", " ">>

Subjects == {<<"s">>, <<"t">>}

\* the messages of the mailboxes have a Message-ID; the second subject comes
\* with the most bounce records
Messages ==
  { m \in [ message_id : {MessageId(i) : i \in FPs},
            date : {NoText}, from_ : {NoText}, subject : Subjects, body : {NoText},
            nb : 0..MaxBounces ] :
      m.subject = <<"t">> => m.nb = MaxBounces }

\* str.strip() of a header value with blanks around
StripBlanks(text) ==
  IF \A i \in DOMAIN text : text[i] = " " THEN <<>>
  ELSE SubSeq(text,
              CHOOSE i \in DOMAIN text : text[i] # " " /\ \A j \in 1..(i - 1) : text[j] = " ",
              CHOOSE i \in DOMAIN text : text[i] # " " /\ \A j \in (i + 1)..Len(text) : text[j] = " ")

\* f"{date_val}|{from_val}|{subject_val}|{body_val}"
HashContent(msg) ==
  msg.date \o <<"|">> \o msg.from_ \o <<"|">> \o msg.subject \o <<"|">>
  \o SubSeq(msg.body, 1, IF Len(msg.body) < 200 THEN Len(msg.body) ELSE 200)

\* hashlib.sha256(text).hexdigest(), taken as one-to-one: a digest is written
\* as the text it was computed from
sha256(text) == <<"sha256">> \o text

compute_message_hash_of_subject(msg) ==
  LET msg_id == StripBlanks(msg.message_id)
  IN  IF msg_id # <<>> /\ msg.subject = <<"s">> THEN sha256(msg_id) ELSE sha256(HashContent(msg))

compute_message_hash(msg) ==
  LET msg_id == StripBlanks(msg.message_id)
  IN  IF msg_id # <<>> THEN sha256(msg_id) ELSE sha256(HashContent(msg))

SeqsUpTo(S, n) == UNION {[1..k -> S] : k \in 0..n}

\* what fetch_messages can return for a folder
FetchResults == SeqsUpTo(Messages, MaxMsgs)

\* extract_bounces(msg, folder): the records of the message, in parsed order
extract_bounces(msg, folder) ==
  [i \in 1..msg.nb |-> [msg |-> compute_message_hash(msg), subject |-> msg.subject,
                         n |-> i, folder |-> folder]]

_build_record(bounce, classification) ==
  [ bounce               |-> bounce,
    ai_responsible_party |-> classification.responsible,
    ai_reason            |-> classification.reason ]

\* replies of the generate call met during a run
RunReplies ==
  { [kind |-> "transport",  text |-> [cat |-> NoMatch, reason |-> NoMatch]],
    [kind |-> "not_object", text |-> [cat |-> NoMatch, reason |-> NoMatch]],
    [kind |-> "bad_field",  text |-> [cat |-> NoMatch, reason |-> NoMatch]],
    [kind |-> "text", text |-> [cat |-> "IP_BLOCK", reason |-> "reason text"]],
    [kind |-> "text", text |-> [cat |-> "user_unknown", reason |-> "reason text"]],
    [kind |-> "text", text |-> [cat |-> NoMatch, reason |-> NoMatch]] }

\* ---------------------------------------------------------------------------
\* Text (Python str): the sequence of its characters.  TAB and NL stand for
\* the tab and the newline character.
\* ---------------------------------------------------------------------------
TAB == "<TAB>"

NL == "<NL>"

\* the carriage return of a CRLF line end
CR == "<CR>"

\* the characters the regex class \s matches, among those of the model
Whitespace == {" ", TAB, NL, CR}

Digits == {"0", "1", "2", "3", "4", "5", "6", "7", "8", "9"}

\* text[n:]
From(text, n) == SubSeq(text, n, Len(text))

RECURSIVE LStrip(_)
LStrip(text) ==
  IF text # <<>> /\ Head(text) \in Whitespace THEN LStrip(Tail(text)) ELSE text

RECURSIVE RStrip(_)
RStrip(text) ==
  IF text # <<>> /\ text[Len(text)] \in Whitespace
  THEN RStrip(SubSeq(text, 1, Len(text) - 1))
  ELSE text

\* str.strip()
PyStrip(text) ==
  IF \A i \in DOMAIN text : text[i] \in Whitespace THEN <<>>
  ELSE LET a == CHOOSE i \in DOMAIN text :
                  text[i] \notin Whitespace /\ \A j \in 1..(i - 1) : text[j] \in Whitespace
           b == CHOOSE i \in DOMAIN text :
                  text[i] \notin Whitespace /\ \A j \in (i + 1)..Len(text) : text[j] \in Whitespace
       IN  SubSeq(text, a, b)

\* the longest prefix of text made of characters of S (a greedy S* of a regex)
RECURSIVE Span(_, _)
Span(text, S) ==
  IF text # <<>> /\ Head(text) \in S THEN <<Head(text)>> \o Span(Tail(text), S) ELSE <<>>

\* the text before the first occurrence of the character c (all of it without)
RECURSIVE UpTo(_, _)
UpTo(text, c) ==
  IF text = <<>> \/ Head(text) = c THEN <<>> ELSE <<Head(text)>> \o UpTo(Tail(text), c)

\* re.sub(r"\s+", " ", text)
RECURSIVE CollapseWhitespace(_)
CollapseWhitespace(text) ==
  IF text = <<>> THEN <<>>
  ELSE IF Head(text) \in Whitespace
       THEN <<" ">> \o CollapseWhitespace(From(text, Len(Span(text, Whitespace)) + 1))
       ELSE <<Head(text)>> \o CollapseWhitespace(Tail(text))

\* ---------------------------------------------------------------------------
\* DSN field parser (modules/bounce_parser.py, _extract_dsn_errors)
\* A section of the delivery-status text is the record of its fields; the
\* value of a field is the text after the colon, NoField when the section has
\* no such field.
\* ---------------------------------------------------------------------------
NoField == <<"<no field>">>

\* no regex match
NoGroup == <<"<no match>">>

\* _RE_DSN_STATUS on the value of the Status field: \s*(5\.\d+\.\d+), the
\* captured group or NoGroup
StatusGroup(value) ==
  LET t  == LStrip(value)
      d1 == Span(From(t, 3), Digits)
      r  == From(t, 3 + Len(d1))
      d2 == Span(From(r, 2), Digits)
  IN  IF /\ value # NoField
         /\ Len(t) >= 2 /\ t[1] = "5" /\ t[2] = "."
         /\ d1 # <<>>
         /\ r # <<>> /\ r[1] = "."
         /\ d2 # <<>>
      THEN <<"5", ".">> \o d1 \o <<".">> \o d2
      ELSE NoGroup

\* diag_match.group(1).strip() for the value of the Diagnostic-Code field after
\* "smtp;", "" without the field.  _RE_DIAGNOSTIC is compiled with
\* re.MULTILINE, so the "$" of its end (?:\r?\n(?!\s)|$) matches at the end of
\* the first line and the lazy group (.+?) never reaches a continuation line.
Diagnostic(value) ==
  IF value = NoField THEN <<>> ELSE PyStrip(UpTo(LStrip(value), NL))

\* re.match(r"(5\d{2})[\s\-]+(.*)", diagnostic, re.DOTALL): the two groups, or
\* NoGroup
CodeMatch(diagnostic) ==
  LET sep == Span(From(diagnostic, 4), Whitespace \cup {"-"})
  IN  IF /\ Len(diagnostic) >= 4
         /\ diagnostic[1] = "5"
         /\ diagnostic[2] \in Digits
         /\ diagnostic[3] \in Digits
         /\ sep # <<>>
      THEN << SubSeq(diagnostic, 1, 3), From(diagnostic, 4 + Len(sep)) >>
      ELSE NoGroup

DsnStatusPrefix == <<"D", "S", "N", " ", "s", "t", "a", "t", "u", "s", " ">>

\* error_code and error_message of a section whose Status matched
\* (bounce_parser.py:182-195)
SectionError_no_status_fallback(section) ==
  LET status     == StatusGroup(section.status)
      diagnostic == Diagnostic(section.diagnostic)
      code_match == CodeMatch(diagnostic)
      code       == IF code_match # NoGroup THEN code_match[1] ELSE <<>>
      message    == IF code_match # NoGroup
                    THEN PyStrip(CollapseWhitespace(code_match[2]))
                    ELSE diagnostic
  IN  [ error_code    |-> code,
        error_message |-> IF message # <<>> THEN message ELSE DsnStatusPrefix \o status ]

SectionError_synthesized_without_code(section) ==
  LET status     == StatusGroup(section.status)
      diagnostic == Diagnostic(section.diagnostic)
      code_match == CodeMatch(diagnostic)
      code       == IF code_match # NoGroup THEN code_match[1] ELSE <<>>
      message    == IF code_match # NoGroup
                    THEN PyStrip(CollapseWhitespace(code_match[2]))
                    ELSE <<>>
  IN  [ error_code    |-> IF code # <<>> THEN code ELSE status,
        error_message |-> IF message # <<>> THEN message ELSE DsnStatusPrefix \o status ]

SectionError(section) ==
  LET status     == StatusGroup(section.status)
      diagnostic == Diagnostic(section.diagnostic)
      code_match == CodeMatch(diagnostic)
      code       == IF code_match # NoGroup THEN code_match[1] ELSE <<>>
      message    == IF code_match # NoGroup
                    THEN PyStrip(CollapseWhitespace(code_match[2]))
                    ELSE diagnostic
  IN  [ error_code    |-> IF code # <<>> THEN code ELSE status,
        error_message |-> IF message # <<>> THEN message ELSE DsnStatusPrefix \o status ]

\* values of the Status field: matching 5.D.D (with leading blank, with a
\* two-digit part, with a trailing comment), a 4.D.D status, an incomplete one
StatusValues ==
  { NoField,
    <<" ", "5", ".", "1", ".", "1">>,
    <<"5", ".", "1", "0", ".", "0">>,
    <<" ", "5", ".", "7", ".", "1", " ", "a">>,
    <<" ", "4", ".", "2", ".", "2">>,
    <<"5", ".", "1">> }

CodePrefixes == { <<"5", "5", "0">>, <<"5", "5">>, <<"4", "5", "0">>, <<>> }

MaxSep == 2         \* longest run of blanks and hyphens after the code
MaxRest == 4        \* longest text after that run

\* a field value is folded: each newline in it is followed by a blank
IsFolded(value) ==
  \A i \in DOMAIN value : value[i] = NL => (i < Len(value) /\ value[i + 1] \in {" ", TAB})

\* values of the Diagnostic-Code field after "smtp;", continuation lines
\* included
DiagnosticValues ==
  {NoField} \cup
  { v \in { p \o s \o r : p \in CodePrefixes,
                           s \in SeqsUpTo({" ", "-"}, MaxSep),
                           r \in SeqsUpTo({"a", " ", NL}, MaxRest) } : IsFolded(v) }

\* ---------------------------------------------------------------------------
\* State
\* ---------------------------------------------------------------------------
VARIABLES
  today,      \* the calendar day (date.today())
  days,       \* the day window of the current run
  pc,         \* where the orchestrator stands
  acct,       \* the account _process_account works on
  disk,       \* the ledger file of each account
  cache,      \* ProcessedCache._data of the current account
  conn,       \* outcome of client.connect(): "pending", "ok", "failed"
  fIdx,       \* index of the folder being handled
  msgs,       \* messages of the folder not handled yet
  bIdx,       \* index of the bounce of the first message classified next
  target,     \* target_records
  excluded,   \* excluded_records
  err,        \* the exception raised in the account's processing, or "none"
  saved,      \* outcome of cache.save() for the account, "none" before
  handed,     \* what write_reports was called with for the account
  visited,    \* accounts _process_account was called for in this run
  skipped,    \* accounts of this run whose connect() failed
  didFetch,   \* fetch_messages was called for the account
  didExtract, \* extract_bounces was called for the account
  classLog,   \* classifications returned for the account, in call order
  runMarks,   \* fingerprints marked processed for the account in this run
  marked,     \* per account: every mark made so far, aged like the ledger
  durable,    \* per account: the marks no failed save() has followed
  mIdx,       \* position in messages of the message at hand
  extracted,  \* the records extract_bounces returned for the account, in call
              \* order, each with the position of its message
  events,     \* what the environment has done so far: days passed, runs started,
              \* messages and bounces delivered, failures met
  callIn,     \* argument of the function applied (function specifications)
  callOut     \* its result

vars == << today, days, pc, acct, disk, cache, conn, fIdx, msgs, bIdx,
           target, excluded, err, saved, handed, visited, skipped, didFetch,
           didExtract, classLog, runMarks, marked, durable, events, mIdx, extracted,
           callIn, callOut >>

\* what a fetched list adds to the events: each message and each of its bounces
RECURSIVE Cost(_)
Cost(result) ==
  IF result = <<>> THEN 0 ELSE 1 + Head(result).nb + Cost(Tail(result))

NoCall == [name |-> "none"]

NotHanded == [called |-> FALSE, target |-> <<>>, excluded |-> <<>>]

\* the ledger file of the first account as the first run finds it (the other
\* accounts have none yet)
InitFiles ==
  { MissingFile,
    File("unreadable", PyDict(EmptyDict)),
    File("bad_utf8", PyDict(EmptyDict)),
    File("invalid_json", PyDict(EmptyDict)),
    File("json", PyList),
    File("json", PyDict(EmptyDict)),
    File("json", PyDict([k \in {sha256(StripBlanks(MessageId(1)))} |-> NotADate])),
    File("json", PyDict([k \in {sha256(StripBlanks(MessageId(1)))} |-> ToIso(0)])) }

Init ==
  /\ today = 1
  /\ days = 1
  /\ pc = "idle"
  /\ acct = 1
  /\ disk \in {f \in [Accounts -> InitFiles] : \A a \in Accounts \ {1} : f[a] = MissingFile}
  /\ cache = EmptyDict
  /\ conn = "pending"
  /\ fIdx = 1
  /\ msgs = <<>>
  /\ bIdx = 1
  /\ target = <<>>
  /\ excluded = <<>>
  /\ err = "none"
  /\ saved = "none"
  /\ handed = NotHanded
  /\ visited = <<>>
  /\ skipped = {}
  /\ didFetch = FALSE
  /\ didExtract = FALSE
  /\ classLog = <<>>
  /\ runMarks = {}
  /\ marked = [a \in Accounts |-> EmptyDict]
  /\ durable = [a \in Accounts |-> EmptyDict]
  /\ events = 0
  /\ mIdx = 1
  /\ extracted = <<>>
  /\ callIn = NoCall
  /\ callOut = NoCall

\* ---------------------------------------------------------------------------
\* run_main and _process_account (modules/cli.py)
\* ---------------------------------------------------------------------------
\* the local variables of _process_account before the call
ResetLocals ==
  /\ cache' = EmptyDict
  /\ conn' = "pending"
  /\ fIdx' = 1
  /\ msgs' = <<>>
  /\ bIdx' = 1
  /\ target' = <<>>
  /\ excluded' = <<>>
  /\ err' = "none"
  /\ saved' = "none"
  /\ handed' = NotHanded
  /\ didFetch' = FALSE
  /\ didExtract' = FALSE
  /\ classLog' = <<>>
  /\ runMarks' = {}
  /\ mIdx' = 1
  /\ extracted' = <<>>

\* the clock moves on between two runs
AdvanceDay ==
  /\ pc = "idle"
  /\ events < MaxEvents
  /\ today < MaxDay
  /\ \E d \in (today + 1)..MaxDay :
       /\ events + (d - today) < MaxEvents
       /\ today' = d
       /\ events' = events + (d - today)
  /\ UNCHANGED << days, pc, acct, disk, cache, conn, fIdx, msgs, bIdx, target,
                  excluded, err, saved, handed, visited, skipped, didFetch, didExtract,
                  classLog, runMarks, marked, durable, mIdx, extracted,
                  callIn, callOut >>

\* run_main(config, days) is entered: the first account is next
StartRun ==
  /\ pc = "idle"
  /\ events < MaxEvents
  /\ \E n \in 1..MaxWindow : days' = n
  /\ events' = events + 1
  /\ acct' = 1
  /\ visited' = <<1>>
  /\ skipped' = {}
  /\ pc' = "load"
  /\ ResetLocals
  /\ UNCHANGED << today, disk, marked, durable, callIn, callOut >>

\* cache = ProcessedCache(...); cache.purge_older_than(days)
LoadAndPurge ==
  /\ pc = "load"
  /\ LET file   == disk[acct]
         loaded == _load(file)
     IN  IF LoadRaises(file) # "none"
         THEN /\ err' = "load"
              /\ pc' = "crashed"
              /\ UNCHANGED << cache, marked, durable >>
         ELSE IF PurgeRaises(loaded) # "none"
         THEN /\ err' = "purge"
              /\ pc' = "crashed"
              /\ UNCHANGED << cache, marked, durable >>
         ELSE /\ cache' = purge_older_than(loaded.data, today, days)
              /\ marked' = [marked EXCEPT ![acct] = purge_older_than(@, today, days)]
              /\ durable' = [durable EXCEPT ![acct] = purge_older_than(@, today, days)]
              /\ pc' = "connect"
              /\ UNCHANGED err
  /\ UNCHANGED << today, days, acct, disk, conn, fIdx, msgs, bIdx, target,
                  excluded, saved, handed, visited, skipped, didFetch, didExtract,
                  classLog, runMarks, events, mIdx, extracted,
                  callIn, callOut >>

Connect_failure_falls_through ==
  /\ pc = "connect"
  /\ \E ok \in BOOLEAN :
       /\ ok \/ events < MaxEvents
       /\ events' = IF ok THEN events ELSE events + 1
       /\ conn' = IF ok THEN "ok" ELSE "failed"
       /\ pc' = "fetch"
  /\ skipped' = IF conn' = "failed" THEN skipped \cup {acct} ELSE skipped
  /\ UNCHANGED << today, days, acct, disk, cache, fIdx, msgs, bIdx, target,
                  excluded, err, saved, handed, visited, didFetch, didExtract,
                  classLog, runMarks, marked, durable, mIdx, extracted,
                  callIn, callOut >>

\* client.connect(): on failure _process_account returns {} at once
Connect ==
  /\ pc = "connect"
  /\ \E ok \in BOOLEAN :
       IF ok
       THEN /\ conn' = "ok"
            /\ pc' = "fetch"
            /\ UNCHANGED events
       ELSE /\ events < MaxEvents
            /\ events' = events + 1
            /\ conn' = "failed"
            /\ pc' = "ret"
  /\ skipped' = IF conn' = "failed" THEN skipped \cup {acct} ELSE skipped
  /\ UNCHANGED << today, days, acct, disk, cache, fIdx, msgs, bIdx, target,
                  excluded, err, saved, handed, visited, didFetch, didExtract,
                  classLog, runMarks, marked, durable, mIdx, extracted,
                  callIn, callOut >>

\* messages = client.fetch_messages(folder, days): a list, or an exception
FetchMessages ==
  /\ pc = "fetch"
  /\ didFetch' = TRUE
  /\ \/ /\ \E result \in FetchResults :
             /\ events + Cost(result) <= MaxEvents
             /\ msgs' = result
             /\ events' = events + Cost(result)
        /\ mIdx' = 1
        /\ pc' = "msg"
        /\ UNCHANGED err
     \/ /\ events < MaxEvents
        /\ events' = events + 1
        /\ err' = "fetch"
        /\ pc' = "finally"
        /\ UNCHANGED << msgs, mIdx >>
  /\ UNCHANGED << today, days, acct, disk, cache, conn, fIdx, bIdx, target,
                  excluded, saved, handed, visited, skipped, didExtract, classLog, runMarks,
                  marked, durable, extracted, callIn, callOut >>

\* the messages of the folder are exhausted: next folder, or the loop ends
NextFolder ==
  /\ pc = "msg"
  /\ msgs = <<>>
  /\ IF fIdx < NFolders
     THEN /\ fIdx' = fIdx + 1
          /\ pc' = "fetch"
     ELSE /\ pc' = "finally"
          /\ UNCHANGED fIdx
  /\ UNCHANGED << today, days, acct, disk, cache, conn, msgs, bIdx, target,
                  excluded, err, saved, handed, visited, skipped, didFetch, didExtract,
                  classLog, runMarks, marked, durable, events, mIdx, extracted,
                  callIn, callOut >>

\* cache.mark_processed(msg_hash), with the records of marks kept beside it
MarkProcessed(msg_hash) ==
  /\ cache' = mark_processed(cache, msg_hash, today)
  /\ runMarks' = runMarks \cup {msg_hash}
  /\ marked' = [marked EXCEPT ![acct] = mark_processed(@, msg_hash, today)]
  /\ durable' = [durable EXCEPT ![acct] = mark_processed(@, msg_hash, today)]

HandleMessage_no_mark_without_records ==
  /\ pc = "msg"
  /\ msgs # <<>>
  /\ LET msg      == Head(msgs)
         msg_hash == compute_message_hash(msg)
         bounces  == extract_bounces(msg, fIdx)
     IN  IF is_processed(cache, msg_hash)
         THEN /\ msgs' = Tail(msgs)
              /\ mIdx' = mIdx + 1
              /\ UNCHANGED << pc, cache, runMarks, marked, durable, didExtract, extracted >>
         ELSE /\ didExtract' = TRUE
              /\ extracted' = extracted \o [i \in DOMAIN bounces |->
                                              [bounce |-> bounces[i], mIdx |-> mIdx]]
              /\ IF bounces = <<>>
                 THEN /\ msgs' = Tail(msgs)
                      /\ mIdx' = mIdx + 1
                      /\ UNCHANGED << pc, cache, runMarks, marked, durable >>
                 ELSE /\ pc' = "classify"
                      /\ UNCHANGED << msgs, mIdx, cache, runMarks, marked, durable >>
  /\ UNCHANGED << today, days, acct, disk, conn, fIdx, bIdx, target, excluded,
                  err, saved, handed, visited, skipped, didFetch, classLog, events,
                  callIn, callOut >>

\* one message of the loop, up to its first classification: skipped when
\* processed, marked when it has no bounce
HandleMessage ==
  /\ pc = "msg"
  /\ msgs # <<>>
  /\ LET msg      == Head(msgs)
         msg_hash == compute_message_hash(msg)
         bounces  == extract_bounces(msg, fIdx)
     IN  IF is_processed(cache, msg_hash)
         THEN /\ msgs' = Tail(msgs)
              /\ mIdx' = mIdx + 1
              /\ UNCHANGED << pc, cache, runMarks, marked, durable, didExtract, extracted >>
         ELSE /\ didExtract' = TRUE
              /\ extracted' = extracted \o [i \in DOMAIN bounces |->
                                              [bounce |-> bounces[i], mIdx |-> mIdx]]
              /\ IF bounces = <<>>
                 THEN /\ MarkProcessed(msg_hash)
                      /\ msgs' = Tail(msgs)
                      /\ mIdx' = mIdx + 1
                      /\ UNCHANGED pc
                 ELSE /\ pc' = "classify"
                      /\ UNCHANGED << msgs, mIdx, cache, runMarks, marked, durable >>
  /\ UNCHANGED << today, days, acct, disk, conn, fIdx, bIdx, target, excluded,
                  err, saved, handed, visited, skipped, didFetch, classLog, events,
                  callIn, callOut >>

ClassifyBounce_prepends ==
  /\ pc = "classify"
  /\ LET msg     == Head(msgs)
         bounces == extract_bounces(msg, fIdx)
         bounce  == bounces[bIdx]
     IN  \E reply \in RunReplies :
           IF ClassifyRaises(reply) # "none"
           THEN /\ events < MaxEvents
                /\ events' = events + 1
                /\ err' = "classify"
                /\ pc' = "finally"
                /\ UNCHANGED << msgs, mIdx, bIdx, target, excluded, classLog, cache,
                                runMarks, marked, durable >>
           ELSE LET classification == classify_error(reply)
                    record         == _build_record(bounce, classification)
                IN  /\ IF classification.is_excluded
                       THEN /\ excluded' = Append(excluded, record)
                            /\ UNCHANGED target
                       ELSE /\ target' = <<record>> \o target
                            /\ UNCHANGED excluded
                    /\ classLog' = Append(classLog,
                                     [record |-> record,
                                      is_excluded |-> classification.is_excluded])
                    /\ IF bIdx < Len(bounces)
                       THEN /\ bIdx' = bIdx + 1
                            /\ UNCHANGED << pc, msgs, mIdx, cache, runMarks, marked, durable >>
                       ELSE /\ MarkProcessed(compute_message_hash(msg))
                            /\ msgs' = Tail(msgs)
                            /\ mIdx' = mIdx + 1
                            /\ bIdx' = 1
                            /\ pc' = "msg"
                    /\ UNCHANGED << err, events >>
  /\ UNCHANGED << today, days, acct, disk, conn, fIdx, saved, handed, visited, skipped,
                  didFetch, didExtract, extracted, callIn, callOut >>

ClassifyBounce_marks_each_turn ==
  /\ pc = "classify"
  /\ LET msg     == Head(msgs)
         bounces == extract_bounces(msg, fIdx)
         bounce  == bounces[bIdx]
     IN  \E reply \in RunReplies :
           IF ClassifyRaises(reply) # "none"
           THEN /\ events < MaxEvents
                /\ events' = events + 1
                /\ err' = "classify"
                /\ pc' = "finally"
                /\ UNCHANGED << msgs, mIdx, bIdx, target, excluded, classLog, cache,
                                runMarks, marked, durable >>
           ELSE LET classification == classify_error(reply)
                    record         == _build_record(bounce, classification)
                IN  /\ IF classification.is_excluded
                       THEN /\ excluded' = Append(excluded, record)
                            /\ UNCHANGED target
                       ELSE /\ target' = Append(target, record)
                            /\ UNCHANGED excluded
                    /\ classLog' = Append(classLog,
                                     [record |-> record,
                                      is_excluded |-> classification.is_excluded])
                    /\ IF bIdx < Len(bounces)
                       THEN /\ MarkProcessed(compute_message_hash(msg))
                            /\ bIdx' = bIdx + 1
                            /\ UNCHANGED << pc, msgs, mIdx >>
                       ELSE /\ MarkProcessed(compute_message_hash(msg))
                            /\ msgs' = Tail(msgs)
                            /\ mIdx' = mIdx + 1
                            /\ bIdx' = 1
                            /\ pc' = "msg"
                    /\ UNCHANGED << err, events >>
  /\ UNCHANGED << today, days, acct, disk, conn, fIdx, saved, handed, visited, skipped,
                  didFetch, didExtract, extracted, callIn, callOut >>

\* one turn of "for bounce in bounces", and the mark after the last turn
ClassifyBounce ==
  /\ pc = "classify"
  /\ LET msg     == Head(msgs)
         bounces == extract_bounces(msg, fIdx)
         bounce  == bounces[bIdx]
     IN  \E reply \in RunReplies :
           IF ClassifyRaises(reply) # "none"
           THEN /\ events < MaxEvents
                /\ events' = events + 1
                /\ err' = "classify"
                /\ pc' = "finally"
                /\ UNCHANGED << msgs, mIdx, bIdx, target, excluded, classLog, cache,
                                runMarks, marked, durable >>
           ELSE LET classification == classify_error(reply)
                    record         == _build_record(bounce, classification)
                IN  /\ IF classification.is_excluded
                       THEN /\ excluded' = Append(excluded, record)
                            /\ UNCHANGED target
                       ELSE /\ target' = Append(target, record)
                            /\ UNCHANGED excluded
                    /\ classLog' = Append(classLog,
                                     [record |-> record,
                                      is_excluded |-> classification.is_excluded])
                    /\ IF bIdx < Len(bounces)
                       THEN /\ bIdx' = bIdx + 1
                            /\ UNCHANGED << pc, msgs, mIdx, cache, runMarks, marked, durable >>
                       ELSE /\ MarkProcessed(compute_message_hash(msg))
                            /\ msgs' = Tail(msgs)
                            /\ mIdx' = mIdx + 1
                            /\ bIdx' = 1
                            /\ pc' = "msg"
                    /\ UNCHANGED << err, events >>
  /\ UNCHANGED << today, days, acct, disk, conn, fIdx, saved, handed, visited, skipped,
                  didFetch, didExtract, extracted, callIn, callOut >>

Finally_no_save_after_error ==
  /\ pc = "finally"
  /\ \E outcome \in SaveOutcomes :
       IF err # "none"
       THEN /\ pc' = "crashed"
            /\ UNCHANGED << disk, saved, durable, events >>
       ELSE /\ outcome = "ok" \/ events < MaxEvents
            /\ events' = IF outcome = "ok" THEN events ELSE events + 1
            /\ disk' = [disk EXCEPT ![acct] = save(@, cache, outcome)]
            /\ saved' = outcome
            /\ durable' = IF outcome = "ok" THEN durable
                          ELSE [durable EXCEPT ![acct] = EmptyDict]
            /\ pc' = IF outcome # "ok" THEN "crashed" ELSE "report"
  /\ conn' = "closed"
  /\ UNCHANGED << today, days, acct, cache, fIdx, msgs, bIdx, target, excluded,
                  err, handed, visited, skipped, didFetch, didExtract, classLog, runMarks,
                  marked, mIdx, extracted,
                  callIn, callOut >>

\* finally: client.disconnect(); cache.save().  An exception of the loop, or
\* of save() itself, then leaves _process_account and run_main.
Finally ==
  /\ pc = "finally"
  /\ \E outcome \in SaveOutcomes :
       /\ outcome = "ok" \/ events < MaxEvents
       /\ events' = IF outcome = "ok" THEN events ELSE events + 1
       /\ disk' = [disk EXCEPT ![acct] = save(@, cache, outcome)]
       /\ saved' = outcome
       /\ durable' = IF outcome = "ok" THEN durable
                     ELSE [durable EXCEPT ![acct] = EmptyDict]
       /\ pc' = IF err # "none" \/ outcome # "ok" THEN "crashed" ELSE "report"
  /\ conn' = "closed"
  /\ UNCHANGED << today, days, acct, cache, fIdx, msgs, bIdx, target, excluded,
                  err, handed, visited, skipped, didFetch, didExtract, classLog, runMarks,
                  marked, mIdx, extracted,
                  callIn, callOut >>

\* write_reports(log_dir, account_name, target_records, excluded_records):
\* nothing is written for two empty lists; a write can raise OSError
WriteReports ==
  /\ pc = "report"
  /\ \/ /\ handed' = [called |-> TRUE, target |-> target, excluded |-> excluded]
        /\ pc' = "ret"
        /\ UNCHANGED << err, events >>
     \/ /\ target # <<>> \/ excluded # <<>>
        /\ events < MaxEvents
        /\ events' = events + 1
        /\ err' = "report"
        /\ pc' = "crashed"
        /\ UNCHANGED handed
  /\ UNCHANGED << today, days, acct, disk, cache, conn, fIdx, msgs, bIdx, target,
                  excluded, saved, visited, skipped, didFetch, didExtract, classLog, runMarks,
                  marked, durable, mIdx, extracted,
                  callIn, callOut >>

\* _process_account returned: run_main takes the next account, or ends
NextAccount ==
  /\ pc = "ret"
  /\ IF acct < NAccounts
     THEN /\ acct' = acct + 1
          /\ visited' = Append(visited, acct + 1)
          /\ pc' = "load"
     ELSE /\ pc' = "idle"
          /\ UNCHANGED << acct, visited >>
  /\ ResetLocals
  /\ UNCHANGED << today, days, disk, skipped, marked, durable, events, callIn, callOut >>

\* an exception left run_main: the process ends
Exit ==
  /\ pc = "crashed"
  /\ pc' = "idle"
  /\ ResetLocals
  /\ callIn' = NoCall
  /\ UNCHANGED << today, days, acct, disk, visited, skipped, marked, durable, events, callOut >>

\* run_cleanup(config, date_text) for the target date d (cli.py:45-84): after
\* the report files of the date are deleted (they are no state of this model),
\* the ledger of the first account is loaded by ProcessedCache(...) and
\* cache.remove_entries_by_date(target_date) is called on it; ProcessedCache
\* (cache.py:11-63) has no such method, so that the call raises AttributeError
\* and no ledger is changed or saved
RunCleanup ==
  /\ pc = "idle"
  /\ events < MaxEvents
  /\ events' = events + 1
  /\ \E d \in 0..MaxDay : callIn' = [name |-> "run_cleanup", date |-> d]
  /\ err' = IF LoadRaises(disk[1]) # "none" THEN "load" ELSE "cleanup"
  /\ pc' = "crashed"
  /\ acct' = 1
  /\ visited' = <<>>
  /\ skipped' = {}
  /\ cache' = IF LoadRaises(disk[1]) # "none" THEN EmptyDict ELSE _load(disk[1]).data
  /\ conn' = "pending"
  /\ fIdx' = 1
  /\ msgs' = <<>>
  /\ bIdx' = 1
  /\ target' = <<>>
  /\ excluded' = <<>>
  /\ saved' = "none"
  /\ handed' = NotHanded
  /\ didFetch' = FALSE
  /\ didExtract' = FALSE
  /\ classLog' = <<>>
  /\ runMarks' = {}
  /\ mIdx' = 1
  /\ extracted' = <<>>
  /\ UNCHANGED << today, days, disk, marked, durable, callOut >>

Next ==
  \/ AdvanceDay
  \/ StartRun
  \/ LoadAndPurge
  \/ Connect
  \/ FetchMessages
  \/ NextFolder
  \/ HandleMessage
  \/ ClassifyBounce
  \/ Finally
  \/ WriteReports
  \/ NextAccount
  \/ Exit
  \/ RunCleanup

Spec == Init /\ [][Next]_vars

\* ---------------------------------------------------------------------------
\* Specifications of single functions: the argument is drawn at the start and
\* one step applies the function.
\* ---------------------------------------------------------------------------
MaxPurgeKeys == 2   \* entries of the ledgers purge_older_than is applied to

\* the orchestrator at rest
AtRest ==
  /\ today = 1
  /\ days = 1
  /\ acct = 1
  /\ disk = [a \in Accounts |-> MissingFile]
  /\ cache = EmptyDict
  /\ conn = "pending"
  /\ fIdx = 1
  /\ msgs = <<>>
  /\ bIdx = 1
  /\ target = <<>>
  /\ excluded = <<>>
  /\ err = "none"
  /\ saved = "none"
  /\ handed = NotHanded
  /\ visited = <<>>
  /\ skipped = {}
  /\ didFetch = FALSE
  /\ didExtract = FALSE
  /\ classLog = <<>>
  /\ runMarks = {}
  /\ marked = [a \in Accounts |-> EmptyDict]
  /\ durable = [a \in Accounts |-> EmptyDict]
  /\ events = 0
  /\ mIdx = 1
  /\ extracted = <<>>

Returns(value) ==
  /\ pc = "call"
  /\ pc' = "returned"
  /\ callOut' = value
  /\ UNCHANGED << today, days, acct, disk, cache, conn, fIdx, msgs, bIdx, target,
                  excluded, err, saved, handed, visited, skipped, didFetch, didExtract,
                  classLog, runMarks, marked, durable, events, mIdx, extracted,
                  callIn >>

\* _parse_response(raw_text) for every reply text
InitParse ==
  /\ AtRest
  /\ pc = "call"
  /\ \E t \in ReplyTexts : callIn = [name |-> "_parse_response", raw_text |-> t]
  /\ callOut = NoCall

ApplyParseResponse ==
  /\ callIn.name = "_parse_response"
  /\ Returns([name |-> "_parse_response", value |-> _parse_response(callIn.raw_text)])

NextParse == ApplyParseResponse

SpecParse == InitParse /\ [][NextParse]_vars

\* purge_older_than(days) on every ledger of up to MaxPurgeKeys entries whose
\* dates are the ISO texts of the days 0..MaxDay
InitPurge ==
  /\ AtRest
  /\ pc = "call"
  /\ \E keys \in SUBSET (1..MaxPurgeKeys) :
       \E dayOf \in [keys -> 0..MaxDay] :
         \E now \in 0..MaxDay :
           \E n \in 0..MaxWindow :
             callIn = [ name  |-> "purge_older_than",
                        dayOf |-> dayOf,
                        data  |-> [k \in keys |-> ToIso(dayOf[k])],
                        now   |-> now,
                        n     |-> n ]
  /\ callOut = NoCall

ApplyPurge ==
  /\ callIn.name = "purge_older_than"
  /\ Returns([ name  |-> "purge_older_than",
               value |-> purge_older_than(callIn.data, callIn.now, callIn.n) ])

NextPurge == ApplyPurge

SpecPurge == InitPurge /\ [][NextPurge]_vars

\* one turn of "for section in sections" (bounce_parser.py:174-195) on every
\* section made of a Status value and a Diagnostic-Code value
InitSection ==
  /\ AtRest
  /\ pc = "call"
  /\ \E st \in StatusValues : \E dg \in DiagnosticValues :
       callIn = [name |-> "_extract_dsn_errors.section",
                 section |-> [status |-> st, diagnostic |-> dg]]
  /\ callOut = NoCall

ApplySection ==
  /\ callIn.name = "_extract_dsn_errors.section"
  /\ Returns([ name    |-> "_extract_dsn_errors.section",
               skipped |-> StatusGroup(callIn.section.status) = NoGroup,
               value   |-> IF StatusGroup(callIn.section.status) = NoGroup
                           THEN [error_code |-> <<>>, error_message |-> <<>>]
                           ELSE SectionError(callIn.section) ])

NextSection == ApplySection

SpecSection == InitSection /\ [][NextSection]_vars

\* ---------------------------------------------------------------------------
\* Body texts (utils/email_utils.py).  The operators below walk a text by its
\* positions, so that they apply to bodies longer than _MAX_BODY_LEN.
\* ---------------------------------------------------------------------------
\* Maximum body snippet length stored in a record
_MAX_BODY_LEN == 1000

\* the pattern pat stands in the text at position i
IsAt(text, i, pat) ==
  /\ i >= 1
  /\ i + Len(pat) - 1 <= Len(text)
  /\ \A k \in DOMAIN pat : text[i + k - 1] = pat[k]

\* a position re.sub leaves out
Dropped == "<dropped>"

Kept(positions) == SelectSeq(positions, LAMBDA c : c # Dropped)

\* re.sub(r"[^\S\n]{2,}", " ", text): a run of two or more whitespace
\* characters other than the newline becomes one blank, a single one stays
CollapseBlanks(text) ==
  LET h(j) == j \in DOMAIN text /\ text[j] \in Whitespace \ {NL}
  IN  Kept([i \in DOMAIN text |->
              IF ~h(i) THEN text[i]
              ELSE IF h(i - 1) THEN Dropped
              ELSE IF h(i + 1) THEN " "
              ELSE text[i]])

\* position i lies in a line made of blanks and tabs only
InBlankLine(text, i) ==
  /\ \E a \in 1..i :
       /\ a = 1 \/ text[a - 1] = NL
       /\ \A k \in a..i : text[k] \in {" ", TAB}
  /\ \E b \in i..Len(text) :
       /\ b = Len(text) \/ text[b + 1] = NL
       /\ \A k \in i..b : text[k] \in {" ", TAB}

\* re.sub(r"^[ \t]+$", "", text, flags=re.MULTILINE)
EmptyBlankLines(text) ==
  Kept([i \in DOMAIN text |->
          IF text[i] \in {" ", TAB} /\ InBlankLine(text, i) THEN Dropped ELSE text[i]])

\* re.sub(r"\n{3,}", "\n\n", text)
LimitNewlines(text) ==
  Kept([i \in DOMAIN text |->
          IF i > 2 /\ text[i] = NL /\ text[i - 1] = NL /\ text[i - 2] = NL
          THEN Dropped ELSE text[i]])

normalize_whitespace(text) ==
  PyStrip(LimitNewlines(EmptyBlankLines(CollapseBlanks(text))))

\* "\n".join(texts)
RECURSIVE JoinLines(_)
JoinLines(texts) ==
  IF texts = <<>> THEN <<>>
  ELSE IF Len(texts) = 1 THEN texts[1]
  ELSE texts[1] \o <<NL>> \o JoinLines(Tail(texts))

\* the first position from i on where pat stands, 0 without
Find(text, i, pat) ==
  IF \E k \in i..Len(text) : IsAt(text, k, pat)
  THEN CHOOSE k \in i..Len(text) :
         IsAt(text, k, pat) /\ \A j \in i..(k - 1) : ~IsAt(text, j, pat)
  ELSE 0

\* the last position where pat stands, 0 without
FindLast(text, pat) ==
  IF \E k \in DOMAIN text : IsAt(text, k, pat)
  THEN CHOOSE k \in DOMAIN text :
         IsAt(text, k, pat) /\ \A j \in (k + 1)..Len(text) : ~IsAt(text, j, pat)
  ELSE 0

\* the first match of <name[^>]*>(.*?)</name> from position i on, as the
\* positions of its "<", of the ">" of the opening tag and of the "<" of the
\* closing tag; <<0, 0, 0>> without
TagBlock(text, i, name) ==
  LET open  == <<"<">> \o name
      close == <<"<", "/">> \o name \o <<">">>
      ok(k) == /\ IsAt(text, k, open)
               /\ Find(text, k + Len(open), <<">">>) # 0
               /\ Find(text, Find(text, k + Len(open), <<">">>) + 1, close) # 0
  IN  IF \E k \in i..Len(text) : ok(k)
      THEN LET k == CHOOSE k \in i..Len(text) : ok(k) /\ \A j \in i..(k - 1) : ~ok(j)
               e == Find(text, k + Len(open), <<">">>)
           IN  <<k, e, Find(text, e + 1, close)>>
      ELSE <<0, 0, 0>>

\* re.sub(r"<name[^>]*>.*?</name>", "", text, flags=re.DOTALL)
RECURSIVE RemoveBlocks(_, _)
RemoveBlocks(text, name) ==
  LET m == TagBlock(text, 1, name)
  IN  IF m[1] = 0 THEN text
      ELSE SubSeq(text, 1, m[1] - 1)
           \o RemoveBlocks(From(text, m[3] + Len(name) + 3), name)

BodyTag == <<"b", "o", "d", "y">>
StyleTag == <<"s", "t", "y", "l", "e">>
ScriptTag == <<"s", "c", "r", "i", "p", "t">>

\* the tags are written in lower case in the texts of the model
\* (re.IGNORECASE is not exercised)
clean_html_body(html) ==
  LET m    == TagBlock(html, 1, BodyTag)
      last == FindLast(html, <<"<", "/">> \o BodyTag \o <<">">>)
      text == IF m[1] # 0 THEN SubSeq(html, m[2] + 1, last - 1) ELSE html
  IN  RemoveBlocks(RemoveBlocks(text, StyleTag), ScriptTag)

\* ---------------------------------------------------------------------------
\* Messages in detail (utils/email_utils.py) and extract_bounces
\* (modules/bounce_parser.py).  A message is its headers and, when it is
\* multipart, the parts below its root in walk() order; the payload of a
\* message/delivery-status part is given by its sections and the payload of a
\* message/rfc822 part by the enclosed message.  Multiparts nested in
\* multiparts are not modelled.
\* ---------------------------------------------------------------------------
UpperCase == <<"A", "B", "C", "D", "E", "F", "G", "H", "I", "J", "K", "L", "M",
               "N", "O", "P", "Q", "R", "S", "T", "U", "V", "W", "X", "Y", "Z">>

LowerCase == <<"a", "b", "c", "d", "e", "f", "g", "h", "i", "j", "k", "l", "m",
               "n", "o", "p", "q", "r", "s", "t", "u", "v", "w", "x", "y", "z">>

\* \w
Word == {"_"} \cup Digits \cup {LowerCase[i] : i \in DOMAIN LowerCase}
                \cup {UpperCase[i] : i \in DOMAIN UpperCase}

UpperLetters == {UpperCase[k] : k \in DOMAIN UpperCase}

\* the sequence with the members of the function f over 1..n
AsSeq(f) == SubSeq(f, 1, Cardinality(DOMAIN f))

\* str.lower()
LowerText(text) ==
  AsSeq([i \in DOMAIN text |->
           IF text[i] \in UpperLetters
           THEN LowerCase[CHOOSE k \in DOMAIN UpperCase : UpperCase[k] = text[i]]
           ELSE text[i]])

Contains(text, pat) == \E k \in DOMAIN text : IsAt(text, k, pat)

\* the n-th smallest member of a set of numbers
Nth(S, n) == CHOOSE x \in S : Cardinality({y \in S : y < x}) = n - 1

\* text.split(c)
Split(text, c) ==
  LET cuts == {0} \cup {i \in DOMAIN text : text[i] = c} \cup {Len(text) + 1}
  IN  AsSeq([n \in 1..(Cardinality(cuts) - 1) |->
               SubSeq(text, Nth(cuts, n) + 1, Nth(cuts, n + 1) - 1)])

RECURSIVE Concat(_)
Concat(lists) == IF lists = <<>> THEN <<>> ELSE Head(lists) \o Concat(Tail(lists))

\* list(dict.fromkeys(items))
Unique(items) ==
  LET firsts == {i \in DOMAIN items : \A j \in 1..(i - 1) : items[j] # items[i]}
  IN  AsSeq([n \in 1..Cardinality(firsts) |-> items[Nth(firsts, n)]])

\* _EMAIL_PATTERN = [\w.+-]+@[\w.-]+\.\w+ : the match whose "@" is at position
\* at and whose start is not before position i, as <<start, end>>
LocalChars == Word \cup {".", "+", "-"}

DomainChars == Word \cup {".", "-"}

\* the last position of the run of characters of S that starts at position i
\* (i - 1 when there is none)
RunEnd(text, i, S) ==
  CHOOSE e \in (i - 1)..Len(text) :
    /\ \A k \in i..e : text[k] \in S
    /\ e = Len(text) \/ text[e + 1] \notin S

\* the dot before the last label of the domain that follows the "@" at position at
LastDot(text, at) ==
  {p \in (at + 2)..(RunEnd(text, at + 1, DomainChars) - 1) :
     text[p] = "." /\ text[p + 1] \in Word}

EmailAround(text, at, i) ==
  /\ text[at] = "@"
  /\ at > i
  /\ text[at - 1] \in LocalChars
  /\ LastDot(text, at) # {}

EmailMatch(text, at, i) ==
  LET start == CHOOSE s \in i..(at - 1) :
                 /\ \A k \in s..(at - 1) : text[k] \in LocalChars
                 /\ s = i \/ text[s - 1] \notin LocalChars
      dot   == CHOOSE p \in LastDot(text, at) : \A q \in LastDot(text, at) : q <= p
  IN  <<start, RunEnd(text, dot + 1, Word)>>

\* _EMAIL_PATTERN.findall(text), from position i on
RECURSIVE FindEmails(_, _)
FindEmails(text, i) ==
  IF \E at \in i..Len(text) : EmailAround(text, at, i)
  THEN LET at == CHOOSE a \in i..Len(text) :
                   EmailAround(text, a, i) /\ \A b \in i..(a - 1) : ~EmailAround(text, b, i)
           m  == EmailMatch(text, at, i)
       IN  <<SubSeq(text, m[1], m[2])>> \o FindEmails(text, m[2] + 1)
  ELSE <<>>

\* email.utils.parseaddr(raw)[1] for "address" and "Name <address>"
parseaddr(raw) ==
  IF Find(raw, 1, <<"<">>) # 0 /\ Find(raw, Find(raw, 1, <<"<">>), <<">">>) # 0
  THEN SubSeq(raw, Find(raw, 1, <<"<">>) + 1, Find(raw, Find(raw, 1, <<"<">>), <<">">>) - 1)
  ELSE PyStrip(raw)

\* get_address(msg, name) for the value of the header
get_address(raw) == parseaddr(raw)

\* a Date header that email.utils.parsedate_to_datetime reads, and anything else
RfcDate == "Mon, 10 Feb 2026 12:34:56 +0900"

\* the local time zone of the model is UTC
format_email_date(raw_date) ==
  IF raw_date = "" THEN ""
  ELSE IF raw_date = RfcDate THEN "2026-02-10 03:34:56"
  ELSE raw_date

NoInner == [present |-> FALSE, from_ |-> <<>>, subject |-> <<>>, text |-> <<>>]

TextPart(ctype, text) ==
  [ctype |-> ctype, text |-> text, sections |-> <<>>, inner |-> NoInner]

DeliveryStatus(sections) ==
  [ctype |-> "message/delivery-status", text |-> <<>>, sections |-> sections,
   inner |-> NoInner]

\* message/rfc822 part around a text/plain message that is not multipart
Rfc822(from_, subject, text) ==
  [ctype |-> "message/rfc822", text |-> <<>>, sections |-> <<>>,
   inner |-> [present |-> TRUE, from_ |-> from_, subject |-> subject, text |-> text]]

\* the decoded text payloads msg.walk() meets, with their content types: the
\* message itself when it is not multipart, else its text parts and the text
\* of the messages enclosed in its message/rfc822 parts
WalkTexts(msg) ==
  IF ~msg.multipart
  THEN IF msg.text = <<>> THEN <<>> ELSE <<[ctype |-> msg.ctype, text |-> msg.text]>>
  ELSE SelectSeq([i \in DOMAIN msg.parts |->
                    IF msg.parts[i].ctype = "message/rfc822"
                    THEN [ctype |-> "text/plain", text |-> msg.parts[i].inner.text]
                    ELSE [ctype |-> msg.parts[i].ctype, text |-> msg.parts[i].text]],
                 LAMBDA p : p.text # <<>> /\ p.ctype \in {"text/plain", "text/html"})

get_all_body_text(msg) ==
  LET texts == WalkTexts(msg)
  IN  JoinLines([i \in DOMAIN texts |->
                   IF texts[i].ctype = "text/html"
                   THEN clean_html_body(texts[i].text)
                   ELSE texts[i].text])

\* get_separated_body_parts(msg); the enclosed messages of the model are
\* text/plain, so that there is no original HTML
NotificationTexts(msg, ctype) ==
  IF ~msg.multipart
  THEN IF msg.text = <<>> \/ (msg.ctype = "text/html") # (ctype = "text/html")
       THEN <<>>
       ELSE <<msg.text>>
  ELSE LET parts == SelectSeq(msg.parts, LAMBDA p : p.ctype = ctype /\ p.text # <<>>)
       IN  [i \in DOMAIN parts |-> parts[i].text]

OriginalTexts(msg) ==
  IF ~msg.multipart THEN <<>>
  ELSE LET parts == SelectSeq(msg.parts, LAMBDA p :
                      p.ctype = "message/rfc822" /\ p.inner.present /\ p.inner.text # <<>>)
       IN  [i \in DOMAIN parts |-> parts[i].inner.text]

get_separated_body_parts(msg) ==
  LET htmls == NotificationTexts(msg, "text/html")
  IN  << JoinLines(NotificationTexts(msg, "text/plain")),
         JoinLines([i \in DOMAIN htmls |-> clean_html_body(htmls[i])]),
         JoinLines(OriginalTexts(msg)),
         <<>> >>

\* re.search(r"^Name:\s*(.+?)$", body_text, re.MULTILINE): group(1).strip()
\* of the first match, <<>> without a match
HeaderLine(body_text, name) ==
  LET hit(i) == /\ i = 1 \/ body_text[i - 1] = NL
                /\ IsAt(body_text, i, name)
                /\ \E k \in (i + Len(name))..Len(body_text) : body_text[k] # NL
  IN  IF \E i \in DOMAIN body_text : hit(i)
      THEN LET i == CHOOSE a \in DOMAIN body_text : hit(a) /\ \A b \in 1..(a - 1) : ~hit(b)
           IN  PyStrip(UpTo(LStrip(From(body_text, i + Len(name))), NL))
      ELSE <<>>

FromName == <<"F", "r", "o", "m", ":">>

SubjectName == <<"S", "u", "b", "j", "e", "c", "t", ":">>

\* the enclosed messages of the message/rfc822 parts, in walk() order
Enclosed(msg) ==
  IF ~msg.multipart THEN <<>>
  ELSE LET parts == SelectSeq(msg.parts, LAMBDA p : p.ctype = "message/rfc822" /\ p.inner.present)
       IN  [i \in DOMAIN parts |-> parts[i].inner]

\* the first member of the list that is not empty, <<>> without
FirstNonEmpty(items) ==
  IF \E i \in DOMAIN items : items[i] # <<>>
  THEN items[CHOOSE i \in DOMAIN items : items[i] # <<>> /\ \A j \in 1..(i - 1) : items[j] = <<>>]
  ELSE <<>>

_extract_original_from_body_first(msg, body_text) ==
  LET addr   == get_address(msg.to)
      inner  == FirstNonEmpty([i \in DOMAIN Enclosed(msg) |-> get_address(Enclosed(msg)[i].from_)])
      addrs  == FindEmails(HeaderLine(body_text, FromName), 1)
  IN  IF addr # <<>> THEN addr
      ELSE IF addrs # <<>> THEN addrs[1]
      ELSE IF inner # <<>> THEN inner
      ELSE <<>>

_extract_original_from(msg, body_text) ==
  LET addr   == get_address(msg.to)
      inner  == FirstNonEmpty([i \in DOMAIN Enclosed(msg) |-> get_address(Enclosed(msg)[i].from_)])
      addrs  == FindEmails(HeaderLine(body_text, FromName), 1)
  IN  IF addr # <<>> THEN addr
      ELSE IF inner # <<>> THEN inner
      ELSE IF addrs # <<>> THEN addrs[1]
      ELSE <<>>

_extract_original_subject(msg, body_text) ==
  LET inner == FirstNonEmpty([i \in DOMAIN Enclosed(msg) |-> Enclosed(msg)[i].subject])
  IN  IF inner # <<>> THEN inner ELSE HeaderLine(body_text, SubjectName)

RecipientKeywords ==
  { <<"r", "e", "c", "i", "p", "i", "e", "n", "t">>,
    <<"r", "c", "p", "t", " ", "t", "o">>,
    <<"o", "r", "i", "g", "i", "n", "a", "l", "-", "r", "e", "c", "i", "p", "i", "e", "n", "t">>,
    <<"f", "i", "n", "a", "l", "-", "r", "e", "c", "i", "p", "i", "e", "n", "t">> }

_extract_failed_recipients(msg, body_text) ==
  IF msg.x_failed # <<>>
  THEN LET addrs == Split(msg.x_failed, ",")
       IN  SelectSeq([i \in DOMAIN addrs |-> PyStrip(addrs[i])], LAMBDA a : a # <<>>)
  ELSE LET lines == Split(body_text, NL)
       IN  Unique(Concat([i \in DOMAIN lines |->
                            LET lower == LowerText(lines[i])
                            IN  IF \E kw \in RecipientKeywords : Contains(lower, kw)
                                THEN FindEmails(lines[i], 1)
                                ELSE <<>>]))

\* _RE_FINAL_RECIPIENT / _RE_ORIGINAL_RECIPIENT: the (\S+) after "rfc822;" and
\* blanks in the value of the field, NoGroup without
RecipientGroup(value) ==
  IF value = NoField \/ LStrip(value) = <<>> THEN NoGroup
  ELSE LET v == LStrip(value)
       IN  IF \E i \in DOMAIN v : v[i] \in Whitespace
           THEN SubSeq(v, 1, (CHOOSE i \in DOMAIN v :
                                /\ v[i] \in Whitespace
                                /\ \A j \in 1..(i - 1) : v[j] \notin Whitespace) - 1)
           ELSE v

SectionRecipient(section) ==
  IF RecipientGroup(section.final) # NoGroup THEN RecipientGroup(section.final)
  ELSE IF RecipientGroup(section.original) # NoGroup THEN RecipientGroup(section.original)
  ELSE <<>>

\* the sections of the first message/delivery-status part walk() meets
DsnSections(msg) ==
  IF msg.multipart /\ \E i \in DOMAIN msg.parts : msg.parts[i].ctype = "message/delivery-status"
  THEN msg.parts[CHOOSE i \in DOMAIN msg.parts :
                   /\ msg.parts[i].ctype = "message/delivery-status"
                   /\ \A j \in 1..(i - 1) : msg.parts[j].ctype # "message/delivery-status"].sections
  ELSE <<>>

_extract_dsn_errors_every_section(msg) ==
  LET sections == DsnSections(msg)
  IN  [i \in DOMAIN sections |->
         [ error_code    |-> SectionError(sections[i]).error_code,
           error_message |-> SectionError(sections[i]).error_message,
           to_addr       |-> SectionRecipient(sections[i]) ]]

_extract_dsn_errors(msg) ==
  LET sections == SelectSeq(DsnSections(msg), LAMBDA s : StatusGroup(s.status) # NoGroup)
  IN  [i \in DOMAIN sections |->
         [ error_code    |-> SectionError(sections[i]).error_code,
           error_message |-> SectionError(sections[i]).error_message,
           to_addr       |-> SectionRecipient(sections[i]) ]]

\* text[:_MAX_BODY_LEN]
Snippet(text) ==
  LET normal == normalize_whitespace(text)
  IN  SubSeq(normal, 1, IF Len(normal) < _MAX_BODY_LEN THEN Len(normal) ELSE _MAX_BODY_LEN)

BounceRecords_first_address(msg, folder, sender_address, errors) ==
  LET body_text == get_all_body_text(msg)
      original  == _extract_original_from(msg, body_text)
      subject   == _extract_original_subject(msg, body_text)
      failed    == _extract_failed_recipients(msg, body_text)
      bodies    == get_separated_body_parts(msg)
      plain     == Snippet(bodies[1])
      html      == Snippet(bodies[2])
      oplain    == Snippet(bodies[3])
      ohtml     == Snippet(bodies[4])
  IN  [i \in DOMAIN errors |->
         [ date                |-> format_email_date(msg.date),
           error_code          |-> errors[i].error_code,
           error_message       |-> errors[i].error_message,
           from_addr           |-> IF original # <<>> THEN original ELSE sender_address,
           to_addr             |-> IF errors[i].to_addr = <<>> /\ failed # <<>>
                                   THEN failed[1]
                                   ELSE errors[i].to_addr,
           subject             |-> IF subject # <<>> THEN subject ELSE msg.subject,
           body_plain          |-> plain,
           body_html           |-> html,
           body_plain_original |-> oplain,
           body_html_original  |-> ohtml,
           folder              |-> folder ]]

\* the records extract_bounces(msg, folder, sender_address) builds from the
\* parsed errors (bounce_parser.py:101-133); delivery_status is left out
BounceRecords(msg, folder, sender_address, errors) ==
  LET body_text == get_all_body_text(msg)
      original  == _extract_original_from(msg, body_text)
      subject   == _extract_original_subject(msg, body_text)
      failed    == _extract_failed_recipients(msg, body_text)
      bodies    == get_separated_body_parts(msg)
      plain     == Snippet(bodies[1])
      html      == Snippet(bodies[2])
      oplain    == Snippet(bodies[3])
      ohtml     == Snippet(bodies[4])
  IN  [i \in DOMAIN errors |->
         [ date                |-> format_email_date(msg.date),
           error_code          |-> errors[i].error_code,
           error_message       |-> errors[i].error_message,
           from_addr           |-> IF original # <<>> THEN original ELSE sender_address,
           to_addr             |-> IF errors[i].to_addr = <<>> /\ failed # <<>>
                                   THEN failed[IF i < Len(failed) THEN i ELSE Len(failed)]
                                   ELSE errors[i].to_addr,
           subject             |-> IF subject # <<>> THEN subject ELSE msg.subject,
           body_plain          |-> plain,
           body_html           |-> html,
           body_plain_original |-> oplain,
           body_html_original  |-> ohtml,
           folder              |-> folder ]]

ExtractBounces_body_fallback(msg, folder, sender_address) ==
  LET errors == _extract_dsn_errors(msg)
  IN  IF errors = <<>>
      THEN IF Contains(get_all_body_text(msg), <<"5", "5", "0">>)
           THEN BounceRecords(msg, folder, sender_address,
                              << [ error_code    |-> <<"5", "5", "0">>,
                                   error_message |-> <<>>,
                                   to_addr       |-> <<>> ] >>)
           ELSE <<>>
      ELSE BounceRecords(msg, folder, sender_address, errors)

\* extract_bounces(msg, folder, sender_address) on a message in detail; the
\* extract_bounces of the orchestrator model above keeps of it the number of
\* records only
ExtractBounces(msg, folder, sender_address) ==
  LET errors == _extract_dsn_errors(msg)
  IN  IF errors = <<>> THEN <<>>
      ELSE BounceRecords(msg, folder, sender_address, errors)

\* ---- the messages extract_bounces is applied to ----
MaxWeight == 3      \* parts of a message, a delivery-status part counted by its sections

SampleSections ==
  { [ status |-> <<" ", "5", ".", "1", ".", "1">>, diagnostic |-> <<" ", "5", "5", "0", " ", "a">>,
      final |-> <<" ", "b", "@", "x", ".", "y">>, original |-> NoField ],
    [ status |-> <<" ", "5", ".", "7", ".", "1", " ", "a">>, diagnostic |-> NoField,
      final |-> NoField, original |-> NoField ],
    [ status |-> <<" ", "4", ".", "2", ".", "2">>, diagnostic |-> <<" ", "4", "5", "0", " ", "a">>,
      final |-> <<" ", "c", "@", "x", ".", "y">>, original |-> NoField ] }

\* a notification text that looks like a 5xx error and names a sender, a
\* subject and a recipient
SampleBody ==
  <<"5", "5", "0", " ", "5", ".", "1", ".", "1", " ", " ", "a", NL, "F", "r", "o", "m", ":", " ", "D", " ", "<", "d", "@", "x", ".", "y", ">", NL, "S", "u", "b", "j", "e", "c", "t", ":", " ", "s", NL, "R", "e", "c", "i", "p", "i", "e", "n", "t", ":", " ", "e", "@", "x", ".", "y", NL>>

\* a body of _MAX_BODY_LEN + 2 characters that is one character shorter when
\* normalised
LongBody == [i \in 1..(_MAX_BODY_LEN + 2) |-> IF i \in {3, 4} THEN " " ELSE "a"]

SampleHtml ==
  <<"<", "b", "o", "d", "y", ">", "<", "s", "t", "y", "l", "e", ">", "q", "<", "/", "s", "t", "y", "l", "e", ">", "5", "5", "0", " ", "h", "<", "/", "b", "o", "d", "y", ">">>

SampleParts ==
  { TextPart("text/plain", SampleBody),
    TextPart("text/plain", LongBody),
    TextPart("text/html", SampleHtml),
    Rfc822(<<"O", " ", "<", "o", "@", "x", ".", "y", ">">>, <<"o", "s">>, <<"o", "r", "i", "g", " ", "5", "5", "0">>),
    DeliveryStatus(<<>>) }

\* the parts that weigh c
PartsOfWeight(c) ==
  IF c = 1
  THEN SampleParts \cup {DeliveryStatus(<<s>>) : s \in SampleSections}
  ELSE {DeliveryStatus(ss) : ss \in [1..c -> SampleSections]}

RECURSIVE PartLists(_)
PartLists(w) ==
  {<<>>} \cup UNION { {<<p>> \o rest : p \in PartsOfWeight(c), rest \in PartLists(w - c)}
                      : c \in 1..w }

SampleHeaders ==
  { [date |-> "", to |-> <<>>, subject |-> <<>>, x_failed |-> <<>>],
    [date |-> RfcDate, to |-> <<"A", " ", "<", "a", "@", "x", ".", "y", ">">>, subject |-> <<"U", "n", "d", "e", "l", "i", "v", "e", "r", "e", "d", " ", "5", "5", "0">>,
     x_failed |-> <<"f", "@", "x", ".", "y", ",", " ", "g", "@", "x", ".", "y">>],
    [date |-> "yesterday", to |-> <<>>, subject |-> <<"U", "n", "d", "e", "l", "i", "v", "e", "r", "e", "d", " ", "5", "5", "0">>,
     x_failed |-> <<"f", "@", "x", ".", "y">>],
    [date |-> RfcDate, to |-> <<"a", "@", "x", ".", "y">>, subject |-> <<>>, x_failed |-> <<>>] }

Message(headers, multipart, ctype, text, parts) ==
  [ date |-> headers.date, to |-> headers.to, subject |-> headers.subject,
    x_failed |-> headers.x_failed, multipart |-> multipart, ctype |-> ctype,
    text |-> text, parts |-> parts ]

SampleMessages ==
  { Message(h, TRUE, "multipart/report", <<>>, parts) :
      h \in SampleHeaders, parts \in PartLists(MaxWeight) \ {<<>>} }
  \cup
  { Message(h, FALSE, p.ctype, p.text, <<>>) :
      h \in SampleHeaders, p \in {q \in SampleParts : q.ctype \in {"text/plain", "text/html"}} }

SampleFolders == {"INBOX", "Junk"}

SenderAddress == <<"m", "e", "@", "x", ".", "y">>

InitExtract ==
  /\ AtRest
  /\ pc = "call"
  /\ \E msg \in SampleMessages : \E folder \in SampleFolders :
       callIn = [name |-> "extract_bounces", msg |-> msg, folder |-> folder,
                 sender_address |-> SenderAddress]
  /\ callOut = NoCall

ApplyExtract ==
  /\ callIn.name = "extract_bounces"
  /\ Returns([ name  |-> "extract_bounces",
               value |-> ExtractBounces(callIn.msg, callIn.folder, callIn.sender_address) ])

NextExtract == ApplyExtract

SpecExtract == InitExtract /\ [][NextExtract]_vars

\* ---------------------------------------------------------------------------
\* Properties
\* ---------------------------------------------------------------------------
Range(q) == {q[i] : i \in DOMAIN q}

Count(q, x) == Cardinality({i \in DOMAIN q : q[i] = x})

\* the places of _process_account where the ledger is loaded and purged
LedgerLoaded == pc \in {"connect", "fetch", "msg", "classify", "finally"}

C2_SaveRunsAfterAbort ==
  (pc = "crashed" /\ err \in {"fetch", "classify"}) =>
     /\ saved # "none"
     /\ saved = "ok" =>
          /\ disk[acct] = File("json", PyDict(cache))
          /\ \A fp \in runMarks : fp \in DOMAIN disk[acct].value.data

\* the fetch of the second folder raised after a message of the first folder
\* was marked, and the ledger was written
C2_Witness ==
  /\ pc = "crashed"
  /\ err = "fetch"
  /\ fIdx = 2
  /\ runMarks # {}
  /\ saved = "ok"
  /\ runMarks \subseteq DOMAIN disk[acct].value.data

\* C3: when connect() fails, save() is still called for the account's ledger
\* before run_main moves on.
C3_SaveAfterConnectFailure ==
  (pc = "ret" /\ conn = "failed") => saved # "none"

\* C4: an account whose connect() fails does no fetch, no extraction, no
\* classification and no report hand-off, and the failure does not end the
\* run: run_main goes on with the accounts in their order.
C4_ConnectFailureSkipsAccount ==
  /\ conn = "failed" =>
       /\ pc = "ret"
       /\ err = "none"
       /\ ~didFetch
       /\ ~didExtract
       /\ classLog = <<>>
       /\ target = <<>> /\ excluded = <<>>
       /\ ~handed.called
  /\ \A i \in DOMAIN visited : visited[i] = i
  /\ \A a \in skipped :
       \/ a < Len(visited)
       \/ a = Len(visited) /\ pc = "ret"
       \/ a = Len(visited) /\ a = NAccounts /\ pc = "idle"

\* the first account's connect() failed and the second account is at work
C4_Witness ==
  /\ 1 \in skipped
  /\ acct = 2
  /\ visited = <<1, 2>>
  /\ pc = "classify"

\* C5: no failure of an account's fetch, classification, ledger flush or
\* report hand-off leaves the account: run_main is never ended by one.
C5_NoFailureEscapes ==
  ~(pc = "crashed" /\ (err \in {"fetch", "classify", "report"} \/ saved \notin {"none", "ok"}))

\* C6: every classified record is in exactly one bucket, in excluded exactly
\* when its category is a registry key flagged excluded; a record classified
\* unknown is in target.
C6_BucketByExcludedFlag ==
  /\ Len(target) + Len(excluded) = Len(classLog)
  /\ \A i \in DOMAIN classLog :
       LET r   == classLog[i].record
           cat == r.ai_responsible_party
       IN  /\ Count(target, r) + Count(excluded, r) = 1
           /\ Count(excluded, r) = 1 <=>
                (cat \in DOMAIN CATEGORIES /\ CATEGORIES[cat].excluded)
           /\ cat = "unknown" => Count(target, r) = 1

\* both buckets are filled and a record classified unknown is in target
C6_Witness ==
  /\ excluded # <<>>
  /\ \E i \in DOMAIN excluded : excluded[i].ai_responsible_party = "user_unknown"
  /\ \E i \in DOMAIN target : target[i].ai_responsible_party = "unknown"

\* C7: a reply without CATEGORY line, or whose lower-cased token is no registry
\* key, yields unknown with excluded = false; a reply whose lower-cased token
\* is a registry key yields that key with the registry's excluded flag.
C7_ResponseValidation ==
  callOut.name = "_parse_response" =>
    LET t == callIn.raw_text
        o == callOut.value
    IN  IF t.cat = NoMatch \/ PyLower(t.cat) \notin DOMAIN CATEGORIES
        THEN o.responsible = "unknown" /\ o.is_excluded = FALSE
        ELSE /\ o.responsible = PyLower(t.cat)
             /\ o.responsible \in DOMAIN CATEGORIES
             /\ o.is_excluded = CATEGORIES[PyLower(t.cat)].excluded

\* an upper-case token of an excluded category was accepted
C7_Witness ==
  /\ callOut.name = "_parse_response"
  /\ callIn.raw_text.cat = "USER_UNKNOWN"
  /\ callOut.value.responsible = "user_unknown"
  /\ callOut.value.is_excluded

\* C8: classify_error never raises, whatever the generate call does or
\* returns.
C8_ClassifyNeverRaises == err # "classify"

\* C9: purge_older_than(N) removes exactly the entries dated strictly before
\* today - N and keeps every other entry with its date; an entry dated
\* today - N is kept.
C9_PurgeExact ==
  callOut.name = "purge_older_than" =>
    LET dayOf  == callIn.dayOf
        cutoff == callIn.now - callIn.n
        out    == callOut.value
    IN  /\ DOMAIN out \subseteq DOMAIN dayOf
        /\ \A k \in DOMAIN dayOf :
             /\ dayOf[k] < cutoff => k \notin DOMAIN out
             /\ dayOf[k] >= cutoff => k \in DOMAIN out /\ out[k] = callIn.data[k]

\* one entry dated exactly today - N was kept and an older one removed
C9_Witness ==
  /\ callOut.name = "purge_older_than"
  /\ \E k \in DOMAIN callIn.dayOf :
       /\ callIn.dayOf[k] = callIn.now - callIn.n
       /\ k \in DOMAIN callOut.value
  /\ \E k \in DOMAIN callIn.dayOf :
       /\ callIn.dayOf[k] < callIn.now - callIn.n
       /\ k \notin DOMAIN callOut.value

\* C10: loading and purging the ledger never aborts the account, whatever the
\* ledger file holds.
C10_LoadNeverAborts == err \notin {"load", "purge"}

\* C11: a failure of the ledger write in save() is not fatal: the account's
\* two buckets are still handed to write_reports and the run goes on with the
\* next account.
C11_SaveFailureNonFatal ==
  saved \in {"not_opened", "truncated"} => pc \in {"report", "ret"}

\* C12: the ledger write is atomic: whatever happens during save(), the file
\* holds afterwards either what it held before or the complete new ledger.
C12_SaveAtomic ==
  [][\A a \in Accounts :
       \/ disk'[a] = disk[a]
       \/ disk'[a] = File("json", PyDict(cache))]_vars

\* C13: when extract_bounces returns no record for a message that is not yet
\* processed, the step marks its fingerprint processed, calls no
\* classification for it and appends nothing to either bucket.
C13_NoRecordsMarksOnly ==
  [][(/\ pc = "msg"
      /\ msgs # <<>>
      /\ ~is_processed(cache, compute_message_hash(Head(msgs)))
      /\ extract_bounces(Head(msgs), fIdx) = <<>>)
     => (/\ is_processed(cache', compute_message_hash(Head(msgs)))
         /\ pc' = "msg"
         /\ msgs' = Tail(msgs)
         /\ classLog' = classLog
         /\ err' = err
         /\ target' = target
         /\ excluded' = excluded)]_vars

\* a message without records was marked, and nothing was classified
C13_Witness ==
  /\ pc = "msg"
  /\ didExtract
  /\ runMarks # {}
  /\ classLog = <<>>
  /\ err = "none"
  /\ target = <<>>
  /\ excluded = <<>>

\* the place of a bounce in the extraction: folder, message, record
ExtractionKey(bounce) ==
  LET e == CHOOSE x \in Range(extracted) : x.bounce = bounce
  IN  << bounce.folder, e.mIdx, bounce.n >>

KeyBefore(k, l) ==
  \/ k[1] < l[1]
  \/ k[1] = l[1] /\ k[2] < l[2]
  \/ k[1] = l[1] /\ k[2] = l[2] /\ k[3] < l[3]

InExtractionOrder(records) ==
  /\ \A i \in DOMAIN records : \E x \in Range(extracted) : x.bounce = records[i].bounce
  /\ \A i, j \in DOMAIN records :
       i < j => KeyBefore(ExtractionKey(records[i].bounce), ExtractionKey(records[j].bounce))

RECURSIVE WordsOf(_)
WordsOf(text) ==
  LET t == LStrip(text)
      w == IF \E i \in DOMAIN t : t[i] \in Whitespace
           THEN SubSeq(t, 1, (CHOOSE i \in DOMAIN t :
                                /\ t[i] \in Whitespace
                                /\ \A j \in 1..(i - 1) : t[j] \notin Whitespace) - 1)
           ELSE t
  IN  IF t = <<>> THEN <<>> ELSE <<w>> \o WordsOf(From(t, Len(w) + 1))

RECURSIVE JoinWords(_)
JoinWords(words) ==
  IF words = <<>> THEN <<>>
  ELSE IF Len(words) = 1 THEN words[1]
  ELSE words[1] \o <<" ">> \o JoinWords(Tail(words))

\* the field value with its continuation lines joined, trimmed
WholeValue(value) == JoinWords(WordsOf(value))

StartsWithCode(text) ==
  /\ Len(text) >= 4
  /\ text[1] = "5" /\ text[2] \in Digits /\ text[3] \in Digits
  /\ text[4] \in Whitespace \cup {"-"}

\* the text after the three digits and the blanks and hyphens that follow
AfterCode(text) ==
  LET i == CHOOSE k \in 4..(Len(text) + 1) :
             /\ \A j \in 4..(k - 1) : text[j] \in Whitespace \cup {"-"}
             /\ k = Len(text) + 1 \/ text[k] \notin Whitespace \cup {"-"}
  IN  From(text, i)

\* the dotted status code written in a Status value
StatusCodeOf(value) == UpTo(LStrip(value), " ")

\* C16: for a qualifying section whose diagnostic text starts with 5DD and at
\* least one blank or hyphen, error_code is those three digits and
\* error_message is the text after them (here: whenever there is such text,
\* and read with its blanks normalised).
C16_CodeAndTextAfter ==
  LET value == callIn.section.diagnostic
      text  == WholeValue(value)
  IN  (/\ callOut.name = "_extract_dsn_errors.section"
       /\ ~callOut.skipped
       /\ value # NoField
       /\ StartsWithCode(text)
       /\ AfterCode(text) # <<>>)
      => /\ callOut.value.error_code = SubSeq(text, 1, 3)
         /\ callOut.value.error_message = AfterCode(text)

\* C17: for a qualifying section without Diagnostic-Code field, error_code is
\* the dotted status code of the section and error_message is "DSN status "
\* followed by it.
C17_StatusFallback ==
  (/\ callOut.name = "_extract_dsn_errors.section"
   /\ ~callOut.skipped
   /\ callIn.section.diagnostic = NoField)
  => /\ callOut.value.error_code = StatusCodeOf(callIn.section.status)
     /\ callOut.value.error_message = DsnStatusPrefix \o StatusCodeOf(callIn.section.status)

\* a section with Status " 5.7.1 a" and no Diagnostic-Code was parsed
C17_Witness ==
  /\ callOut.name = "_extract_dsn_errors.section"
  /\ ~callOut.skipped
  /\ callIn.section.diagnostic = NoField
  /\ callIn.section.status = <<" ", "5", ".", "7", ".", "1", " ", "a">>
  /\ callOut.value.error_code = <<"5", ".", "7", ".", "1">>

HasDeliveryStatus(msg) ==
  msg.multipart /\ \E i \in DOMAIN msg.parts : msg.parts[i].ctype = "message/delivery-status"

IsStatus5(value) ==
  /\ value # NoField
  /\ LET v == LStrip(value)
     IN  \E k \in 4..(Len(v) - 1) :
           /\ v[1] = "5" /\ v[2] = "."
           /\ \A j \in 3..(k - 1) : v[j] \in Digits
           /\ v[k] = "." /\ v[k + 1] \in Digits

\* C18: extract_bounces returns one record per section of the DSN whose Status
\* is 5.D.D, in the order of the sections, and none for the other sections; the
\* records of the message share date, from_addr, subject, folder and the four
\* body snippets, and no snippet is longer than 1000 characters.
C18_OneRecordPerFailedSection ==
  callOut.name = "extract_bounces" =>
    LET out      == callOut.value
        sections == DsnSections(callIn.msg)
        failed   == {j \in DOMAIN sections : IsStatus5(sections[j].status)}
        shared(r) == << r.date, r.from_addr, r.subject, r.folder, r.body_plain,
                        r.body_html, r.body_plain_original, r.body_html_original >>
    IN  /\ Len(out) = Cardinality(failed)
        /\ \A i \in DOMAIN out :
             /\ out[i].error_code = SectionError(sections[Nth(failed, i)]).error_code
             /\ out[i].error_message = SectionError(sections[Nth(failed, i)]).error_message
             /\ shared(out[i]) = shared(out[1])
             /\ out[i].folder = callIn.folder
             /\ Len(out[i].body_plain) <= 1000
             /\ Len(out[i].body_html) <= 1000
             /\ Len(out[i].body_plain_original) <= 1000
             /\ Len(out[i].body_html_original) <= 1000

\* two records were returned for a message whose notification text is longer
\* than 1000 characters after normalisation
C18_Witness ==
  /\ callOut.name = "extract_bounces"
  /\ Len(callOut.value) = 2
  /\ callOut.value[1].error_code # callOut.value[2].error_code
  /\ Len(normalize_whitespace(get_separated_body_parts(callIn.msg)[1])) > 1000
  /\ Len(callOut.value[2].body_plain) = 1000

\* messages with and without Message-ID, with blanks around it or not, and
\* with other headers and bodies
HashSamples ==
  [ message_id : {NoText, <<" ">>} \cup {MessageId(i) : i \in FPs}
                 \cup {StripBlanks(MessageId(i)) : i \in FPs},
    date : {NoText, <<"d">>}, from_ : {NoText, <<"f">>}, subject : Subjects,
    body : {NoText, <<"b">>}, nb : {0, MaxBounces} ]

SameMessageId(m, n) ==
  /\ StripBlanks(m.message_id) # <<>>
  /\ StripBlanks(m.message_id) = StripBlanks(n.message_id)

\* two messages with the same Message-ID have the same fingerprint
SameIdSameFingerprint ==
  \A m, n \in HashSamples :
    SameMessageId(m, n) => compute_message_hash(m) = compute_message_hash(n)

\* the ledger holds the fingerprint of a message with the Message-ID of msg
MetBefore(msg, ledger) ==
  /\ DOMAIN ledger # {}
  /\ \E m \in Messages : SameMessageId(m, msg) /\ compute_message_hash(m) \in DOMAIN ledger

\* the step skips the message at the head of the list
SkipsHead ==
  /\ msgs' = Tail(msgs)
  /\ pc' = "msg"
  /\ cache' = cache
  /\ classLog' = classLog
  /\ extracted' = extracted
  /\ target' = target
  /\ excluded' = excluded

WithoutDate(file, d) ==
  [k \in {h \in DOMAIN _load(file).data : _load(file).data[h] # ToIso(d)} |->
     _load(file).data[k]]

\* C20: run_cleanup for a target date removes from every account's ledger
\* exactly the entries added on that date, leaves the other entries unchanged
\* and ends normally.
C20_CleanupRemovesEntriesOfDate ==
  [][(pc = "idle" /\ callIn'.name = "run_cleanup")
     => (/\ err' = "none"
         /\ \A a \in Accounts :
              _load(disk'[a]).data = WithoutDate(disk[a], callIn'.date))]_vars

\* ---------------------------------------------------------------------------
\* normalize_whitespace(text) for every text of at most MaxText characters and
\* for the text of the documented example
\* ---------------------------------------------------------------------------
MaxText == 5        \* longest text normalize_whitespace is applied to

ExampleText ==
  <<"a", TAB, TAB, " ", "b", NL, " ", " ", " ", NL, "c", NL, NL, NL, NL, "d">>

NormalizeTexts ==
  {ExampleText} \cup UNION {[1..n -> {"a", " ", TAB, NL, CR}] : n \in 0..MaxText}

InitNormalize ==
  /\ AtRest
  /\ pc = "call"
  /\ \E t \in NormalizeTexts : callIn = [name |-> "normalize_whitespace", text |-> t]
  /\ callOut = NoCall

ApplyNormalize ==
  /\ callIn.name = "normalize_whitespace"
  /\ Returns([ name  |-> "normalize_whitespace",
               value |-> normalize_whitespace(callIn.text) ])

NextNormalize == ApplyNormalize

SpecNormalize == InitNormalize /\ [][NextNormalize]_vars

\* position i of the text lies in a line that holds whitespace only
InWhitespaceLine(text, i) ==
  /\ \E a \in 1..i :
       /\ a = 1 \/ text[a - 1] = NL
       /\ \A k \in a..i : text[k] \in Whitespace \ {NL}
  /\ \E b \in i..Len(text) :
       /\ b = Len(text) \/ text[b + 1] = NL
       /\ \A k \in i..b : text[k] \in Whitespace \ {NL}

\* C21: the text normalize_whitespace returns has no run of two or more
\* horizontal whitespace characters, no line made of whitespace only that is
\* not empty, no run of three or more newlines and no whitespace at its ends;
\* it holds the other characters of the input in their order, and the example
\* text becomes "a b<NL><NL>c<NL><NL>d".
C21_NormalizeAsStated ==
  (pc = "returned" /\ callOut.name = "normalize_whitespace") =>
    LET in  == callIn.text
        out == callOut.value
    IN  /\ \A i \in 1..(Len(out) - 1) :
             ~(out[i] \in Whitespace \ {NL} /\ out[i + 1] \in Whitespace \ {NL})
        /\ \A i \in DOMAIN out : out[i] # NL => ~InWhitespaceLine(out, i)
        /\ \A i \in 1..(Len(out) - 2) :
             ~(out[i] = NL /\ out[i + 1] = NL /\ out[i + 2] = NL)
        /\ out # <<>> => out[1] \notin Whitespace /\ out[Len(out)] \notin Whitespace
        /\ SelectSeq(out, LAMBDA c : c \notin Whitespace)
             = SelectSeq(in, LAMBDA c : c \notin Whitespace)
        /\ in = ExampleText
             => out = <<"a", " ", "b", NL, NL, "c", NL, NL, "d">>

\* the first line of a field value, trimmed
FirstLine(value) ==
  LET t == LStrip(value)
      n == IF \E i \in DOMAIN t : t[i] = NL
           THEN (CHOOSE i \in DOMAIN t : t[i] = NL /\ \A j \in 1..(i - 1) : t[j] # NL) - 1
           ELSE Len(t)
  IN  PyStrip(SubSeq(t, 1, n))

\* a qualifying section was parsed whose Diagnostic-Code holds text that does
\* not start with 5DD and a blank or hyphen
UnmatchedDiagnostic ==
  /\ callOut.name = "_extract_dsn_errors.section"
  /\ ~callOut.skipped
  /\ callIn.section.diagnostic # NoField
  /\ WholeValue(callIn.section.diagnostic) # <<>>
  /\ ~StartsWithCode(WholeValue(callIn.section.diagnostic))

Letters == UpperLetters \cup {LowerCase[k] : k \in DOMAIN LowerCase}

\* re.match(r"([A-Za-z][A-Za-z0-9\-]*):\s*(.*)", line): the two groups, or
\* NoGroup
FieldMatch(line) ==
  LET name == Span(line, Letters \cup Digits \cup {"-"})
  IN  IF /\ line # <<>>
         /\ line[1] \in Letters
         /\ Len(line) > Len(name)
         /\ line[Len(name) + 1] = ":"
      THEN << name, From(line, Len(name) + 2 + Len(Span(From(line, Len(name) + 2), Whitespace))) >>
      ELSE NoGroup

\* match.group(1).lower().replace("-", "_")
NormalName(name) ==
  LET lower == LowerText(name)
  IN  AsSeq([i \in DOMAIN lower |-> IF lower[i] = "-" THEN "_" ELSE lower[i]])

\* fields[current_key] = current_value, when there is a current key
Stored(fields, key, value) ==
  IF key = NoGroup THEN fields ELSE (key :> value) @@ fields

\* the loop of _parse_dsn_fields over the lines that are left, and the store
\* after it
RECURSIVE ParseLines(_, _, _, _)
ParseLines(lines, fields, current_key, current_value) ==
  IF lines = <<>> THEN Stored(fields, current_key, current_value)
  ELSE LET line  == Head(lines)
           match == FieldMatch(line)
       IN  IF line = <<>> \/ \A i \in DOMAIN line : line[i] \in Whitespace
           THEN ParseLines(Tail(lines), fields, current_key, current_value)
           ELSE IF line[1] \in Whitespace /\ current_key # NoGroup
           THEN ParseLines(Tail(lines), fields, current_key,
                           current_value \o <<" ">> \o PyStrip(line))
           ELSE IF match # NoGroup
           THEN ParseLines(Tail(lines), Stored(fields, current_key, current_value),
                           NormalName(match[1]), PyStrip(match[2]))
           ELSE ParseLines(Tail(lines), Stored(fields, current_key, current_value),
                           NoGroup, <<>>)

_parse_dsn_fields(section) == ParseLines(section, EmptyDict, NoGroup, <<>>)

\* _RE_DSN_STATUS.search(section): the pattern [Ss]tatus\s*:\s*(5\.\d+\.\d+)
\* stands somewhere in the text of the section
StatusSearch(section) ==
  LET text == JoinLines(section)
  IN  \E i \in DOMAIN text :
        /\ text[i] \in {"S", "s"}
        /\ IsAt(text, i + 1, <<"t", "a", "t", "u", "s">>)
        /\ LET rest == LStrip(From(text, i + 6))
           IN  /\ rest # <<>>
               /\ rest[1] = ":"
               /\ StatusGroup(From(rest, 2)) # NoGroup

\* the fields of the first section when it holds no status
per_message_fields(sections) ==
  IF sections # <<>> /\ ~StatusSearch(sections[1])
  THEN _parse_dsn_fields(sections[1])
  ELSE EmptyDict

dsn_fields_message_wins(sections) ==
  LET qualifying == SelectSeq(sections, StatusSearch)
  IN  [i \in DOMAIN qualifying |->
         per_message_fields(sections) @@ _parse_dsn_fields(qualifying[i])]

\* dsn_fields = {**per_message_fields, **_parse_dsn_fields(section)} of every
\* section with a status, in order
dsn_fields(sections) ==
  LET qualifying == SelectSeq(sections, StatusSearch)
  IN  [i \in DOMAIN qualifying |->
         _parse_dsn_fields(qualifying[i]) @@ per_message_fields(sections)]

MaxLines == 2       \* lines of a section of the delivery-status part

\* lines of a per-message section: a field, a continuation line, the same
\* field name in lower case without blank after the colon, a line that is no
\* field
MessageLines ==
  { <<"R", "-", "M", ":", " ", "d">>, <<" ", "e">>, <<"r", "-", "m", ":", "f">>, <<"o">> }

\* lines of a per-recipient section: the status, a field the per-message
\* section has too, another field
RecipientLines ==
  { <<"S", "t", "a", "t", "u", "s", ":", " ", "5", ".", "1", ".", "1">>,
    <<"R", "-", "M", ":", " ", "k">>, <<"A", ":", " ", "b">> }

\* the delivery-status texts: a first section of any lines and a second one of
\* per-recipient lines and continuation lines
SampleDsn ==
  { <<first, second>> :
      first \in SeqsUpTo(MessageLines \cup RecipientLines, MaxLines) \ {<<>>},
      second \in SeqsUpTo(RecipientLines \cup {<<" ", "e">>}, MaxLines) \ {<<>>} }

InitFields ==
  /\ AtRest
  /\ pc = "call"
  /\ \E sections \in SampleDsn :
       callIn = [name |-> "_extract_dsn_errors.delivery_status", sections |-> sections]
  /\ callOut = NoCall

ApplyFields ==
  /\ callIn.name = "_extract_dsn_errors.delivery_status"
  /\ Returns([ name  |-> "_extract_dsn_errors.delivery_status",
               value |-> dsn_fields(callIn.sections) ])

NextFields == ApplyFields

SpecFields == InitFields /\ [][NextFields]_vars

\* line i of the section starts a field
IsFieldLine(section, i) ==
  /\ section[i][1] \in Letters
  /\ \E c \in DOMAIN section[i] :
       /\ section[i][c] = ":"
       /\ \A k \in 1..(c - 1) : section[i][k] \in Letters \cup Digits \cup {"-"}

\* the name of the field that starts in line i, in lower case and with
\* underscores for its hyphens
FieldName(section, i) ==
  LET c == CHOOSE c \in DOMAIN section[i] :
             section[i][c] = ":" /\ \A k \in 1..(c - 1) : section[i][k] # ":"
  IN  [k \in 1..(c - 1) |->
         IF section[i][k] = "-" THEN "_"
         ELSE IF section[i][k] \in UpperLetters
              THEN LowerCase[CHOOSE n \in DOMAIN UpperCase : UpperCase[n] = section[i][k]]
              ELSE section[i][k]]

\* the value of the field that starts in line i: the text after the colon and
\* the texts of the continuation lines that follow, joined by single blanks
FieldValue(section, i) ==
  LET c    == Len(FieldName(section, i)) + 1
      last == CHOOSE j \in i..Len(section) :
                /\ \A k \in (i + 1)..j : section[k][1] \in Whitespace
                /\ j = Len(section) \/ section[j + 1][1] \notin Whitespace
  IN  JoinWords(<<PyStrip(From(section[i], c + 1))>>
                \o [k \in 1..(last - i) |-> PyStrip(section[i + k])])

\* the last line of the section that starts a field of the name, 0 without
LastFieldLine(section, name) ==
  LET found == {i \in DOMAIN section : IsFieldLine(section, i) /\ FieldName(section, i) = name}
  IN  IF found = {} THEN 0 ELSE CHOOSE i \in found : \A j \in found : j <= i

\* C23: when the first section holds no status, the delivery_status map of
\* every record has, for every field of the first section, an entry under the
\* normalized field name; its value is the value the recipient section gives
\* to that name when it has a field of that name, and the message-level value
\* otherwise.
C23_MessageFieldsMergedRecipientWins ==
  (/\ callOut.name = "_extract_dsn_errors.delivery_status"
   /\ \A i \in DOMAIN callIn.sections[1] : ~IsFieldLine(callIn.sections[1], i)
        \/ FieldName(callIn.sections[1], i) # <<"s", "t", "a", "t", "u", "s">>)
  => LET message   == callIn.sections[1]
         recipient == callIn.sections[2]
     IN  \A r \in DOMAIN callOut.value :
           \A i \in DOMAIN message :
             IsFieldLine(message, i) =>
               LET name == FieldName(message, i)
               IN  /\ name \in DOMAIN callOut.value[r]
                   /\ callOut.value[r][name] =
                        IF LastFieldLine(recipient, name) # 0
                        THEN FieldValue(recipient, LastFieldLine(recipient, name))
                        ELSE FieldValue(message, LastFieldLine(message, name))

\* a record was built from a per-message section with a folded field R-M and
\* a recipient section that has a field R-M too
C23_Witness ==
  /\ callOut.name = "_extract_dsn_errors.delivery_status"
  /\ callIn.sections[1] = << <<"R", "-", "M", ":", " ", "d">>, <<" ", "e">> >>
  /\ callIn.sections[2] = << <<"S", "t", "a", "t", "u", "s", ":", " ", "5", ".", "1", ".", "1">>,
                             <<"R", "-", "M", ":", " ", "k">> >>
  /\ Len(callOut.value) = 1
  /\ callOut.value[1][<<"r", "_", "m">>] = <<"k">>

\* C24: in the records of a message, the record of the parsed error at
\* position i (counted from 1) that has no recipient of its own has the
\* recovered address R[min(i, |R|)] as to_addr when the list R of recovered
\* addresses is not empty and an empty to_addr when it is; the record of an
\* error with a recipient has that recipient.
C24_RecipientBackfill ==
  callOut.name = "extract_bounces" =>
    LET out      == callOut.value
        sections == DsnSections(callIn.msg)
        failed   == {j \in DOMAIN sections : IsStatus5(sections[j].status)}
        R        == _extract_failed_recipients(callIn.msg, get_all_body_text(callIn.msg))
    IN  \A i \in DOMAIN out :
          LET own == SectionRecipient(sections[Nth(failed, i)])
          IN  out[i].to_addr =
                IF own # <<>> THEN own
                ELSE IF R = <<>> THEN <<>>
                ELSE R[IF i < Len(R) THEN i ELSE Len(R)]

\* three records were returned, the first with the recipient of its section,
\* the second and third filled from a list of two recovered addresses
C24_Witness ==
  /\ callOut.name = "extract_bounces"
  /\ Len(callOut.value) = 3
  /\ callIn.msg.x_failed = <<"f", "@", "x", ".", "y", ",", " ", "g", "@", "x", ".", "y">>
  /\ callOut.value[1].to_addr = <<"b", "@", "x", ".", "y">>
  /\ callOut.value[2].to_addr = <<"g", "@", "x", ".", "y">>
  /\ callOut.value[3].to_addr = <<"g", "@", "x", ".", "y">>

\* the sources of the sender in their order: the address of the To header of
\* the bounce, the From address of the first enclosed original message that
\* has one, the first address of the first "From:" line of the body text, the
\* address the caller supplied
SenderSources(msg, sender_address) ==
  LET originals == SelectSeq(msg.parts, LAMBDA p : p.ctype = "message/rfc822")
      froms     == SelectSeq([i \in DOMAIN originals |-> parseaddr(originals[i].inner.from_)],
                             LAMBDA a : a # <<>>)
      found     == FindEmails(HeaderLine(get_all_body_text(msg), FromName), 1)
  IN  << parseaddr(msg.to),
         IF msg.multipart /\ froms # <<>> THEN froms[1] ELSE <<>>,
         IF found # <<>> THEN found[1] ELSE <<>>,
         sender_address >>

\* C25: from_addr of every record is the first source of the chain that is not
\* empty (To of the bounce, From of an enclosed original, address of a From:
\* line of the body text, fallback of the caller), so that a later source is
\* used only when all earlier ones are empty.
C25_SenderChain ==
  callOut.name = "extract_bounces" =>
    LET sources == SenderSources(callIn.msg, callIn.sender_address)
    IN  \A r \in DOMAIN callOut.value :
          \E k \in DOMAIN sources :
            /\ callOut.value[r].from_addr = sources[k]
            /\ \A j \in 1..(k - 1) : sources[j] = <<>>
            /\ sources[k] # <<>> \/ k = Len(sources)

\* a record has the From address of the enclosed original as sender: the
\* bounce has no To address, and its body text has a From: line with another
\* address
C25_Witness ==
  /\ callOut.name = "extract_bounces"
  /\ callOut.value # <<>>
  /\ callIn.msg.to = <<>>
  /\ callOut.value[1].from_addr = <<"o", "@", "x", ".", "y">>
  /\ FindEmails(HeaderLine(get_all_body_text(callIn.msg), FromName), 1)
       = << <<"d", "@", "x", ".", "y">> >>

\* ---------------------------------------------------------------------------
\* report.py: write_reports and _write_json
\* ---------------------------------------------------------------------------

MaxRecords == 2

Buckets == {"target", "excluded"}

\* a report file of the day: there is none, or it holds a JSON list of
\* records, or it holds records and cannot be opened for reading (OSError), or
\* it holds the start of a list that a stopped write left (JSONDecodeError), or
\* it holds a JSON object
ReportFile(kind, records) == [kind |-> kind, records |-> records]

ReportFiles ==
  {ReportFile("missing", <<>>), ReportFile("json_object", <<>>)}
    \cup { ReportFile(kind, records) :
             kind \in {"json", "unreadable", "invalid_json"},
             records \in SeqsUpTo({"r0"}, MaxRecords) }

\* _write_json(path, records) with a write that works: the records read from
\* the file, [] when there is no file or when reading it raises
\* JSONDecodeError or OSError, followed by the new ones
_write_json_overwriting(file, records) ==
  ReportFile("json", records)

_write_json(file, records) ==
  LET existing == IF file.kind = "json" THEN file.records ELSE <<>>
  IN  ReportFile("json", existing \o records)

\* write_reports(log_dir, account_name, target_records, excluded_records) on
\* the two files of the day, the target file first: existing + records raises
\* TypeError when the file holds a JSON object, open(path, "w") raises OSError
\* for the bucket named by write_error; what was written before stays written
write_reports(files, target_records, excluded_records, write_error) ==
  LET Raises(b, records) ==
        IF records = <<>> THEN "none"
        ELSE IF files[b].kind = "json_object" THEN "TypeError"
        ELSE IF write_error = b THEN "OSError"
        ELSE "none"
      first == Raises("target", target_records)
      after_target == IF target_records = <<>> \/ first # "none"
                      THEN files
                      ELSE [files EXCEPT !["target"] = _write_json(@, target_records)]
      second == IF first # "none" THEN first ELSE Raises("excluded", excluded_records)
  IN  [ raised |-> second,
        files  |-> IF excluded_records = <<>> \/ second # "none"
                   THEN after_target
                   ELSE [after_target EXCEPT !["excluded"] = _write_json(@, excluded_records)] ]

InitReport ==
  /\ AtRest
  /\ pc = "call"
  /\ \E files \in [Buckets -> ReportFiles],
        target_records, excluded_records \in SeqsUpTo({"r1", "r2"}, MaxRecords),
        write_error \in Buckets \cup {"none"} :
       callIn = [ name |-> "write_reports", files |-> files,
                  target_records |-> target_records,
                  excluded_records |-> excluded_records,
                  write_error |-> write_error ]
  /\ callOut = NoCall

ApplyReport ==
  /\ callIn.name = "write_reports"
  /\ Returns([ name  |-> "write_reports",
               value |-> write_reports(callIn.files, callIn.target_records,
                                       callIn.excluded_records, callIn.write_error) ])

NextReport == ApplyReport

SpecReport == InitReport /\ [][NextReport]_vars

\* the records handed to write_reports for the bucket
NewRecords(b) ==
  IF b = "target" THEN callIn.target_records ELSE callIn.excluded_records

HandedRecords ==
  IF handed.called THEN handed.target \o handed.excluded
  ELSE IF err = "report" THEN target \o excluded
  ELSE <<>>

\* C27: when _process_account has ended and save() has written the ledger,
\* every bounce record extracted in this run from a message whose fingerprint
\* is in the written ledger was handed to write_reports.
C27_MarkedRecordsHanded ==
  pc \in {"ret", "crashed"} /\ saved = "ok" =>
    \A i \in DOMAIN extracted :
      extracted[i].bounce.msg \in DOMAIN disk[acct].value.data =>
        \E j \in DOMAIN HandedRecords : HandedRecords[j].bounce = extracted[i].bounce

\* ---------------------------------------------------------------------------
\* Runs over the days: the ledger entries and the fetch window
\* (cache.py purge_older_than and mark_processed, imap_client.py
\* fetch_messages, cli.py _process_account)
\* ---------------------------------------------------------------------------
\* One account with one folder, whose ledger is read and written without
\* failure.  callIn.mailbox maps every message of the folder to the day it
\* arrived; callOut counts the runs and, for every message, the completed runs
\* that submitted it to classification.

MaxMail == 2
MaxRuns == 3

Mails == 1..MaxMail

\* message i of the folder: a bounce with one failed recipient
Mail(i) ==
  [ message_id |-> MessageId(i), date |-> NoText, from_ |-> NoText,
    subject |-> <<"s">>, body |-> NoText, nb |-> 1 ]

\* client.fetch_messages(folder, days): the messages the search
\* (SINCE "<today - days>") finds, those that arrived on that day or later, in
\* the order of the folder
fetch_messages_a_day_more(mailbox, now, n) ==
  LET since == now - n - 1
  IN  SelectSeq([i \in Mails |-> i], LAMBDA i : i \in DOMAIN mailbox /\ mailbox[i] >= since)

fetch_messages(mailbox, now, n) ==
  LET since == now - n
  IN  SelectSeq([i \in Mails |-> i], LAMBDA i : i \in DOMAIN mailbox /\ mailbox[i] >= since)

\* the loop over the first k fetched messages: those the ledger has are
\* skipped, the others are classified and marked
RECURSIVE HandleFetched(_, _, _, _)
HandleFetched(fetched, k, data, now) ==
  IF k = 0 THEN [data |-> data, classified |-> {}]
  ELSE LET before   == HandleFetched(fetched, k - 1, data, now)
           msg_hash == compute_message_hash(Mail(fetched[k]))
       IN  IF is_processed(before.data, msg_hash) THEN before
           ELSE [ data       |-> mark_processed(before.data, msg_hash, now),
                  classified |-> before.classified \cup {fetched[k]} ]

InitWindow ==
  /\ today = 0
  /\ days \in 1..MaxWindow
  /\ pc = "idle"
  /\ acct = 1
  /\ disk = [a \in Accounts |-> MissingFile]
  /\ cache = EmptyDict
  /\ conn = "pending"
  /\ fIdx = 1
  /\ msgs = <<>>
  /\ bIdx = 1
  /\ target = <<>>
  /\ excluded = <<>>
  /\ err = "none"
  /\ saved = "none"
  /\ handed = NotHanded
  /\ visited = <<>>
  /\ skipped = {}
  /\ didFetch = FALSE
  /\ didExtract = FALSE
  /\ classLog = <<>>
  /\ runMarks = {}
  /\ marked = [a \in Accounts |-> EmptyDict]
  /\ durable = [a \in Accounts |-> EmptyDict]
  /\ events = 0
  /\ mIdx = 1
  /\ extracted = <<>>
  /\ callIn = [name |-> "runs", mailbox |-> [i \in {} |-> 0]]
  /\ callOut = [name |-> "runs", runs |-> 0, submitted |-> [i \in Mails |-> 0]]

WindowFrame ==
  UNCHANGED << days, acct, conn, fIdx, msgs, bIdx, target, excluded, err, saved, handed,
               visited, skipped, didFetch, didExtract, classLog, runMarks, marked,
               durable, events, mIdx, extracted >>

\* a message arrives in the folder
Arrive ==
  /\ \E i \in Mails \ DOMAIN callIn.mailbox :
       callIn' = [callIn EXCEPT !.mailbox = (i :> today) @@ @]
  /\ WindowFrame
  /\ UNCHANGED << today, pc, disk, cache, callOut >>

\* midnight, between two runs or during one
Midnight ==
  /\ today < MaxDay
  /\ today' = today + 1
  /\ WindowFrame
  /\ UNCHANGED << pc, disk, cache, callIn, callOut >>

\* _process_account up to the loop: the ledger is loaded and purged
PurgeAtStart ==
  /\ pc = "idle"
  /\ callOut.runs < MaxRuns
  /\ cache' = purge_older_than(_load(disk[1]).data, today, days)
  /\ pc' = "fetch"
  /\ callOut' = [callOut EXCEPT !.runs = @ + 1]
  /\ WindowFrame
  /\ UNCHANGED << today, disk, callIn >>

\* the loop and save(), of a run that is completed
CompleteRun ==
  /\ pc = "fetch"
  /\ LET fetched == fetch_messages(callIn.mailbox, today, days)
         done    == HandleFetched(fetched, Len(fetched), cache, today)
     IN  /\ disk' = [disk EXCEPT ![1] = save(@, done.data, "ok")]
         /\ callOut' = [callOut EXCEPT !.submitted =
                          [i \in Mails |-> IF i \in done.classified THEN @[i] + 1 ELSE @[i]]]
  /\ cache' = EmptyDict
  /\ pc' = "idle"
  /\ WindowFrame
  /\ UNCHANGED << today, callIn >>

\* the loop and save(), of a run that the classification of the k-th fetched
\* message ends with an exception: the messages before it are handled
AbortRun ==
  /\ pc = "fetch"
  /\ LET fetched == fetch_messages(callIn.mailbox, today, days)
     IN  \E k \in DOMAIN fetched :
           LET done == HandleFetched(fetched, k - 1, cache, today)
           IN  /\ ~is_processed(done.data, compute_message_hash(Mail(fetched[k])))
               /\ disk' = [disk EXCEPT ![1] = save(@, done.data, "ok")]
  /\ cache' = EmptyDict
  /\ pc' = "idle"
  /\ WindowFrame
  /\ UNCHANGED << today, callIn, callOut >>

NextWindow == Arrive \/ Midnight \/ PurgeAtStart \/ CompleteRun \/ AbortRun

SpecWindow == InitWindow /\ [][NextWindow]_vars

\* C28: in runs with the same day window whose ledger is loaded and saved
\* without failure, no message is submitted to classification in more than
\* one completed run.
C28_ClassifiedInOneCompletedRun ==
  callOut.name = "runs" => \A i \in Mails : callOut.submitted[i] <= 1

\* a message that a completed run classified is still in the folder, its
\* entry has been purged from the ledger, and the run that purged it has ended
\* without classifying it again
C28_Witness ==
  /\ callOut.name = "runs"
  /\ pc = "idle"
  /\ callOut.runs >= 2
  /\ \E i \in DOMAIN callIn.mailbox :
       /\ callOut.submitted[i] = 1
       /\ disk[1].kind = "json"
       /\ ~is_processed(disk[1].value.data, compute_message_hash(Mail(i)))

\* C29: extraction has run when a fingerprint is marked, and every bounce
\* record extracted from a message whose fingerprint is marked is classified
\* and in the bucket of its classification; and when the loop was left by an
\* exception of a classification, the ledger that save() wrote has no entry
\* for the message that was being handled.
C29_MarkedAfterAllClassified ==
  /\ runMarks # {} => didExtract
  /\ \A i \in DOMAIN extracted :
       extracted[i].bounce.msg \in runMarks =>
         \E j \in DOMAIN classLog :
           /\ classLog[j].record.bounce = extracted[i].bounce
           /\ classLog[j].record \in Range(IF classLog[j].is_excluded THEN excluded ELSE target)
  /\ pc = "crashed" /\ err = "classify" /\ saved = "ok" =>
       /\ compute_message_hash(Head(msgs)) \notin runMarks
       /\ ~is_processed(disk[acct].value.data, compute_message_hash(Head(msgs)))

\* the classification of the second record of a message raised after the
\* first record was put in a bucket, and the ledger was written without the
\* message
C29_Witness ==
  /\ pc = "crashed"
  /\ err = "classify"
  /\ saved = "ok"
  /\ bIdx = 2
  /\ Len(target) + Len(excluded) = 1
  /\ ~is_processed(disk[acct].value.data, compute_message_hash(Head(msgs)))

\* ---------------------------------------------------------------------------
\* main.py: main and process_account
\* ---------------------------------------------------------------------------
\* main.process_account is cli._process_account line by line, but for the
\* directory of the ledger (log_dir/.cache), the key it reads the bucket
\* from, its _build_record and its summary.  disk is the ledger of .cache.

\* the keys of the record main._build_record builds
MainRecordKeys ==
  { "date", "folder", "error_code", "error_cause", "ai_responsible_party", "ai_reason",
    "from_addr", "to_addr", "subject", "body_plain", "body_html" }

main_build_record(bounce, classification) ==
  [ bounce               |-> bounce,
    ai_responsible_party |-> classification.responsible,
    ai_reason            |-> classification.reason,
    keys                 |-> MainRecordKeys ]

\* one turn of "for bounce in bounces" of process_account, and the mark after
\* the last turn: classification["is_user_caused"] raises KeyError for a dict
\* without that key
ClassifyBounceMain ==
  /\ pc = "classify"
  /\ LET msg     == Head(msgs)
         bounces == extract_bounces(msg, fIdx)
         bounce  == bounces[bIdx]
     IN  \E reply \in RunReplies :
           IF ClassifyRaises(reply) # "none"
           THEN /\ events < MaxEvents
                /\ events' = events + 1
                /\ err' = "classify"
                /\ pc' = "finally"
                /\ UNCHANGED << msgs, mIdx, bIdx, target, excluded, classLog, cache,
                                runMarks, marked, durable >>
           ELSE LET classification == classify_error(reply)
                IN  IF "is_user_caused" \notin DOMAIN classification
                    THEN /\ err' = "KeyError"
                         /\ pc' = "finally"
                         /\ UNCHANGED << events, msgs, mIdx, bIdx, target, excluded,
                                         classLog, cache, runMarks, marked, durable >>
                    ELSE LET record == main_build_record(bounce, classification)
                         IN  /\ IF classification.is_user_caused
                                THEN /\ excluded' = Append(excluded, record)
                                     /\ UNCHANGED target
                                ELSE /\ target' = Append(target, record)
                                     /\ UNCHANGED excluded
                             /\ classLog' = Append(classLog,
                                              [record |-> record,
                                               is_excluded |-> classification.is_user_caused])
                             /\ IF bIdx < Len(bounces)
                                THEN /\ bIdx' = bIdx + 1
                                     /\ UNCHANGED << pc, msgs, mIdx, cache, runMarks,
                                                     marked, durable >>
                                ELSE /\ MarkProcessed(compute_message_hash(msg))
                                     /\ msgs' = Tail(msgs)
                                     /\ mIdx' = mIdx + 1
                                     /\ bIdx' = 1
                                     /\ pc' = "msg"
                             /\ UNCHANGED << err, events >>
  /\ UNCHANGED << today, days, acct, disk, conn, fIdx, saved, handed, visited, skipped,
                  didFetch, didExtract, extracted, callIn, callOut >>

\* write_reports(log_dir, account_name, target_records, excluded_records) of
\* process_account: nothing is written for two empty lists, a write can raise
\* OSError
WriteReportsMain ==
  /\ pc = "report"
  /\ \E raised \in BOOLEAN :
       /\ raised => (target # <<>> \/ excluded # <<>>) /\ events < MaxEvents
       /\ events' = IF raised THEN events + 1 ELSE events
       /\ err' = IF raised THEN "report" ELSE err
       /\ pc' = IF raised THEN "crashed" ELSE "ret"
       /\ handed' = IF raised THEN handed
                    ELSE [called |-> TRUE, target |-> target, excluded |-> excluded]
  /\ UNCHANGED << today, days, acct, disk, cache, conn, fIdx, msgs, bIdx, target,
                  excluded, saved, visited, skipped, didFetch, didExtract, classLog, runMarks,
                  marked, durable, mIdx, extracted,
                  callIn, callOut >>

NextMain ==
  \/ AdvanceDay
  \/ StartRun
  \/ LoadAndPurge
  \/ Connect
  \/ FetchMessages
  \/ NextFolder
  \/ HandleMessage
  \/ ClassifyBounceMain
  \/ Finally
  \/ WriteReportsMain
  \/ NextAccount
  \/ Exit

SpecMain == Init /\ [][NextMain]_vars

\* C30: every step of the loop of main.process_account is a step that the
\* loop of cli._process_account takes on the same messages with a reply of
\* the classification: the same marks, the same target and excluded records.
C30_MainStepsAreCliSteps ==
  [][ (pc \in {"msg", "classify"}) => (HandleMessage \/ NextFolder \/ ClassifyBounce) ]_vars

====
